---- MODULE Spec2Model ----
(***************************************************************************)
(* Model of the demo-max REST backend: users, events and event             *)
(* registrations kept in three SQLite tables, and the request handlers     *)
(* that read and write them.                                                *)
(***************************************************************************)
EXTENDS Integers, Sequences, FiniteSets, TLC

(***************************************************************************)
(* Bounds of the model.                                                     *)
(***************************************************************************)
\* largest rowid the users table hands out
MaxUsers == 3
\* largest rowid the events table hands out
MaxEventId == 2
\* the clock stops advancing at this instant
MaxTime == 1
\* length of one year, in clock ticks
OneYear == 1
\* largest rowid the registrations table hands out
MaxRegId == 2
\* number of register calls that may be between pre-check and insert
MaxPending == 1
\* the week of the walk-through, in ticks of the clock
OneWeek == 1
\* longest text given to sanitizeText on its own
MaxLen == 5
\* number of signup calls that may be waiting for their hash
MaxHashing == 2

(***************************************************************************)
(* JavaScript values of a request body: a type tag and, for strings, the    *)
(* characters.                                                              *)
(***************************************************************************)
Undefined == [type |-> "undefined", val |-> << >>]
Null == [type |-> "null", val |-> << >>]
Str(s) == [type |-> "string", val |-> s]
Num42 == [type |-> "number", val |-> <<"4", "2">>]

\* JavaScript truthiness of a body value (undefined, null and "" are falsy)
Truthy(v) ==
  CASE v.type = "undefined" -> FALSE
    [] v.type = "null" -> FALSE
    [] v.type = "string" -> v.val # << >>
    [] OTHER -> TRUE

NaN == -1

\* the character c, n times
Rep(n, c) == [i \in 1..n |-> c]

(***************************************************************************)
(* Text sanitization.                                                       *)
(***************************************************************************)
IsSpace(c) == c \in {" ", "\t", "\n"}

Indices(s) == [i \in 1..Len(s) |-> i]

\* String.prototype.trim: from the first to the last non-blank character
Trim(s) ==
  LET NonBlank(i) == ~IsSpace(s[i])
      at == SelectSeq(Indices(s), NonBlank)
  IN IF at = << >> THEN << >> ELSE SubSeq(s, at[1], at[Len(at)])

\* replace(/\s\s?/g, ' '): whitespace becomes a space two characters at a time
CollapsePairs(s) ==
  LET RunBefore(i) ==
        Cardinality({j \in 1..(i - 1) : \A k \in j..(i - 1) : IsSpace(s[k])})
      Kept(i) == ~IsSpace(s[i]) \/ RunBefore(i) % 2 = 0
      at == SelectSeq(Indices(s), Kept)
  IN [k \in 1..Len(at) |-> IF IsSpace(s[at[k]]) THEN " " ELSE s[at[k]]]

\* replace(/\s+/g, ' '): every maximal run of whitespace becomes one space
Collapse(s) ==
  LET Kept(i) == ~IsSpace(s[i]) \/ i = 1 \/ ~IsSpace(s[i - 1])
      at == SelectSeq(Indices(s), Kept)
  IN [k \in 1..Len(at) |-> IF IsSpace(s[at[k]]) THEN " " ELSE s[at[k]]]

\* sanitizeText: the characters of the sanitized text ('' for a non-string)
sanitizeText(v) ==
  IF v.type # "string" THEN << >> ELSE Collapse(Trim(v.val))

LowerChar(c) ==
  CASE c = "A" -> "a"
    [] c = "B" -> "b"
    [] c = "C" -> "c"
    [] OTHER -> c

\* String.prototype.toLowerCase
toLowerCase(s) == [i \in 1..Len(s) |-> LowerChar(s[i])]

(***************************************************************************)
(* Dates.  A date string is <<wall, zone>>: a wall-clock reading and a      *)
(* zone designator; "Z" is UTC and "+1" is one tick ahead of UTC.           *)
(***************************************************************************)
Digits == <<"0", "1", "2", "3", "4", "5", "6", "7", "8", "9", "10", "11", "12">>

DigitVal(c) == CHOOSE n \in 0..(Len(Digits) - 1) : Digits[n + 1] = c

IsDigit(c) == \E n \in 1..Len(Digits) : Digits[n] = c

ZoneOffset(z) == IF z = "+1" THEN 1 ELSE 0

\* Date.prototype.getFullYear, with the clock's origin in year 2025
BaseYear == 2025
getFullYear(t) == BaseYear + (t \div OneYear)

\* the last year ISO 8601 writes with four digits; later years are written
\* with a sign and six digits
YearFourDigits == 9999

\* the first instant of a year written with a sign
ExtendedOrigin == (YearFourDigits + 1 - BaseYear) * OneYear

\* new Date(dateString).getTime(): the instant, or NaN.  A string
\* <<"+", wall, zone>> is a reading in the years written with a sign.
DateParse(v) ==
  IF v.type = "string" /\ Len(v.val) = 2 /\ IsDigit(v.val[1])
     /\ v.val[2] \in {"Z", "+1"}
     /\ DigitVal(v.val[1]) - ZoneOffset(v.val[2]) >= 0
  THEN DigitVal(v.val[1]) - ZoneOffset(v.val[2])
  ELSE IF v.type = "string" /\ Len(v.val) = 3 /\ v.val[1] = "+"
          /\ IsDigit(v.val[2]) /\ v.val[3] \in {"Z", "+1"}
  THEN ExtendedOrigin + DigitVal(v.val[2]) - ZoneOffset(v.val[3])
  ELSE NaN

\* Date.prototype.toISOString: the UTC rendering of an instant
toISOString(t) ==
  IF getFullYear(t) > YearFourDigits
  THEN Str(<<"+", Digits[t - ExtendedOrigin + 1], "Z">>)
  ELSE Str(<<Digits[t + 1], "Z">>)

isValidDate(v) == DateParse(v) # NaN

\* the code unit of a character of a date string
CharCode(c) ==
  CASE c = "+" -> 43
    [] c = "Z" -> 90
    [] OTHER -> 48 + DigitVal(c)

\* the order of two TEXT values under SQLite's BINARY collation
TextLeq(a, b) ==
  \/ \E i \in 1..Len(a) :
       /\ i <= Len(b)
       /\ \A k \in 1..(i - 1) : a[k] = b[k]
       /\ CharCode(a[i]) < CharCode(b[i])
  \/ /\ Len(a) <= Len(b)
     /\ \A k \in 1..Len(a) : a[k] = b[k]

(***************************************************************************)
(* State.                                                                   *)
(***************************************************************************)
VARIABLES
  users,      \* rows of table users
  events,     \* rows of table events
  regs,       \* rows of table event_registrations
  tokens,     \* identities {id, email} for which a token was issued
  now,        \* the current instant
  pending,    \* register calls between their pre-check and their insert
  last,       \* the response to the most recent request
  scen,       \* the walk-through in progress: its step, users and event
  hashing,    \* signup calls waiting for bcrypt.hash
  sample,     \* a value given to sanitizeText and what became of it
  issued      \* the signed tokens handed out, with their time of issue

vars == <<users, events, regs, tokens, now, pending, last, scen, hashing, sample,
         issued>>
tables == <<users, events, regs>>
\* what the event handlers never touch
aside == <<scen, hashing, sample, issued>>

MaxId(rows) ==
  IF rows = {} THEN 0 ELSE CHOOSE m \in {r.id : r \in rows} :
                              \A r \in rows : r.id <= m

\* INTEGER PRIMARY KEY: the rowid of a new row is one more than the largest
NextRowId(rows) == MaxId(rows) + 1

\* A response: the handler, the HTTP status, the error kind, the SQLite
\* error code that was caught, and the count and the rows a listing returns.
NoResponse ==
  [op |-> "none", status |-> 0, kind |-> "NONE", code |-> "", count |-> 0,
   body |-> << >>]

Response(op, status, kind) ==
  [op |-> op, status |-> status, kind |-> kind, code |-> "", count |-> 0,
   body |-> << >>]

Init ==
  /\ users = {}
  /\ events = {}
  /\ regs = {}
  /\ tokens = {}
  /\ now = 0
  /\ pending = {}
  /\ last = NoResponse
  /\ scen = [step |-> 0, a |-> 0, b |-> 0, e |-> 0]
  /\ hashing = {}
  /\ sample = [stage |-> 0, given |-> Undefined, once |-> << >>, twice |-> << >>]
  /\ issued = {}

(***************************************************************************)
(* Users.                                                                   *)
(***************************************************************************)
\* /^[^\s@]+@[^\s@]+\.[^\s@]+$/
isValidEmail(v) ==
  /\ v.type = "string"
  /\ \A i \in 1..Len(v.val) : ~IsSpace(v.val[i])
  /\ \E i \in 2..Len(v.val) :
       /\ v.val[i] = "@"
       /\ \A k \in 1..Len(v.val) : v.val[k] = "@" => k = i
       /\ \E j \in (i + 2)..(Len(v.val) - 1) : v.val[j] = "."

\* bcrypt.hash: the salted digest of a password
bcryptHash(pw, salt) == <<"$2b$12$", salt>> \o pw

findByEmail(email) == {u \in users : u.email = email}

findUserById(id) == {u \in users : u.id = id}

\* generateJWT: the identity a token carries
generateJWT(user) == [id |-> user.id, email |-> user.email]

\* userController.signup with userModel.createUser
Signup(body) ==
  LET email == body.email
      password == body.password
      id == NextRowId(users)
      newUser == [id |-> id, email |-> email.val,
                  password |-> bcryptHash(password.val, "salt"),
                  name |-> IF Truthy(body.name) THEN body.name.val ELSE << >>]
  IN
  IF ~Truthy(email) \/ ~Truthy(password) THEN
    /\ last' = Response("signup", 400, "VALIDATION_FAILED")
    /\ UNCHANGED <<users, events, regs, tokens, now, pending>>
  ELSE IF ~isValidEmail(email) THEN
    /\ last' = Response("signup", 400, "VALIDATION_FAILED")
    /\ UNCHANGED <<users, events, regs, tokens, now, pending>>
  ELSE IF Len(password.val) < 6 THEN
    /\ last' = Response("signup", 400, "VALIDATION_FAILED")
    /\ UNCHANGED <<users, events, regs, tokens, now, pending>>
  ELSE IF findByEmail(email.val) # {} THEN
    /\ last' = Response("signup", 409, "CONFLICT")
    /\ UNCHANGED <<users, events, regs, tokens, now, pending>>
  ELSE
    /\ id <= MaxUsers
    /\ users' = users \cup {newUser}
    /\ tokens' = tokens \cup {generateJWT(newUser)}
    /\ last' = Response("signup", 201, "OK")
    /\ UNCHANGED <<events, regs, now, pending>>

(***************************************************************************)
(* Signup and login with the awaits of bcrypt.  A signup call is a request  *)
(* number and a body; between its check of the email and its insert it      *)
(* waits in hashing, and other requests run.                                *)
(***************************************************************************)
\* users.email TEXT UNIQUE
EmailUniqueViolation(rows, email) == \E u \in rows : u.email = email

\* a catch that answers every error as an internal error
signupCatchInternal(code) ==
  [Response("signup", 500, "INTERNAL_ERROR") EXCEPT !.code = code]

\* the catch of userController.signup
signupCatch(code) ==
  IF code = "SQLITE_CONSTRAINT_UNIQUE"
  THEN [Response("signup", 409, "CONFLICT") EXCEPT !.code = code]
  ELSE [Response("signup", 500, "INTERNAL_ERROR") EXCEPT !.code = code]

\* userController.signup up to the await of bcrypt.hash
SignupCheck(req, body) ==
  LET email == body.email
      password == body.password
  IN
  /\ \A h \in hashing : h.req # req
  /\ IF ~Truthy(email) \/ ~Truthy(password) THEN
       /\ last' = Response("signup", 400, "VALIDATION_FAILED")
       /\ UNCHANGED hashing
     ELSE IF ~isValidEmail(email) THEN
       /\ last' = Response("signup", 400, "VALIDATION_FAILED")
       /\ UNCHANGED hashing
     ELSE IF password.type = "string" /\ Len(password.val) < 6 THEN
       /\ last' = Response("signup", 400, "VALIDATION_FAILED")
       /\ UNCHANGED hashing
     ELSE IF findByEmail(email.val) # {} THEN
       /\ last' = Response("signup", 409, "CONFLICT")
       /\ UNCHANGED hashing
     ELSE
       /\ hashing' = hashing \cup {[req |-> req, body |-> body]}
       /\ UNCHANGED last
  /\ UNCHANGED <<users, events, regs, tokens, now, pending>>

\* userController.signup from the moment bcrypt.hash settles: the insert of
\* userModel.createUser, and the catch for what it throws
SignupInsert(h) ==
  LET email == h.body.email
      password == h.body.password
      id == NextRowId(users)
      newUser == [id |-> id, email |-> email.val,
                  password |-> bcryptHash(password.val, "salt"),
                  name |-> IF Truthy(h.body.name) THEN h.body.name.val
                           ELSE << >>]
  IN
  /\ h \in hashing
  /\ hashing' = hashing \ {h}
  /\ IF password.type # "string" THEN
       /\ last' = signupCatch("")
       /\ UNCHANGED <<users, tokens>>
     ELSE IF EmailUniqueViolation(users, email.val) THEN
       /\ last' = signupCatch("SQLITE_CONSTRAINT_UNIQUE")
       /\ UNCHANGED <<users, tokens>>
     ELSE
       /\ id <= MaxUsers
       /\ users' = users \cup {newUser}
       /\ tokens' = tokens \cup {generateJWT(newUser)}
       /\ last' = Response("signup", 201, "OK")
  /\ UNCHANGED <<events, regs, now, pending>>

\* bcrypt.compare: whether the data hashes to this digest under the digest's
\* salt; it throws for data that is not a string
bcryptCompare(data, hash) ==
  IF data.type # "string" THEN "throws"
  ELSE IF bcryptHash(data.val, hash[2]) = hash THEN "true"
  ELSE "false"

\* userModel.verifyCredentials: the user, "null", or "throws"
verifyCredentials(email, password) ==
  LET user == findByEmail(email.val) IN
  IF user = {} THEN "null"
  ELSE LET u == CHOOSE x \in user : TRUE
           isPasswordValid == bcryptCompare(password, u.password)
       IN CASE isPasswordValid = "throws" -> "throws"
            [] isPasswordValid = "true" -> "user"
            [] OTHER -> "null"

\* the response of userController.login to a request
loginResponse(body) ==
  IF ~Truthy(body.email) \/ ~Truthy(body.password)
  THEN [Response("login", 400, "VALIDATION_FAILED")
          EXCEPT !.body = <<"Email and password are required">>]
  ELSE LET user == verifyCredentials(body.email, body.password) IN
       CASE user = "throws" ->
              [Response("login", 500, "INTERNAL_ERROR")
                 EXCEPT !.body = <<"Internal server error">>]
         [] user = "null" ->
              [Response("login", 401, "CREDENTIAL_INVALID")
                 EXCEPT !.body = <<"Invalid email or password">>]
         [] OTHER ->
              [Response("login", 200, "OK") EXCEPT !.body = <<"Login successful">>]

\* userController.login
Login(body) ==
  /\ last' = loginResponse(body)
  /\ UNCHANGED <<users, events, regs, tokens, now, pending>>

(***************************************************************************)
(* Validation of event data.                                                *)
(***************************************************************************)
TitleMin == 3
TitleMax == 100
DescriptionMax == 500
AddressMax == 200
YearMin == 1900
YearMax == 2100

\* title checks that measure the title as written
TitleErrorsRaw(title) ==
  IF ~Truthy(title) \/ title.type # "string"
  THEN <<"Title is required and must be a string">>
  ELSE (IF Len(title.val) < TitleMin
        THEN <<"Title must be at least 3 characters long">> ELSE << >>)
       \o (IF Len(title.val) > TitleMax
           THEN <<"Title must not exceed 100 characters">> ELSE << >>)

\* the title checks of validateEventData
TitleErrors(title) ==
  IF ~Truthy(title) \/ title.type # "string"
  THEN <<"Title is required and must be a string">>
  ELSE (IF Len(sanitizeText(title)) < TitleMin
        THEN <<"Title must be at least 3 characters long">> ELSE << >>)
       \o (IF Len(sanitizeText(title)) > TitleMax
           THEN <<"Title must not exceed 100 characters">> ELSE << >>)

OptionalTextErrors(text, max, notString, tooLong) ==
  IF text.type \in {"undefined", "null"} THEN << >>
  ELSE IF text.type # "string" THEN <<notString>>
  ELSE IF Len(sanitizeText(text)) > max THEN <<tooLong>>
  ELSE << >>

\* date checks that let through a date equal to the current time
DateErrorsAtNow(date, t) ==
  IF ~Truthy(date) THEN <<"Date is required">>
  ELSE IF ~isValidDate(date)
  THEN <<"Please provide a valid date in ISO format (e.g., 2024-12-25T15:00:00Z)">>
  ELSE LET eventDate == DateParse(date)
           oneYearFromNow == t + OneYear
       IN (IF eventDate < t
           THEN <<"Event date must be in the future">> ELSE << >>)
          \o (IF eventDate > oneYearFromNow
              THEN <<"Event date cannot be more than 1 year in the future">>
              ELSE << >>)
          \o (IF getFullYear(eventDate) < YearMin
                 \/ getFullYear(eventDate) > YearMax
              THEN <<"Event date must be between years 1900 and 2100">>
              ELSE << >>)

\* the date checks of validateEventData
DateErrors(date, t) ==
  IF ~Truthy(date) THEN <<"Date is required">>
  ELSE IF ~isValidDate(date)
  THEN <<"Please provide a valid date in ISO format (e.g., 2024-12-25T15:00:00Z)">>
  ELSE LET eventDate == DateParse(date)
           oneYearFromNow == t + OneYear
       IN (IF eventDate <= t
           THEN <<"Event date must be in the future">> ELSE << >>)
          \o (IF eventDate > oneYearFromNow
              THEN <<"Event date cannot be more than 1 year in the future">>
              ELSE << >>)
          \o (IF getFullYear(eventDate) < YearMin
                 \/ getFullYear(eventDate) > YearMax
              THEN <<"Event date must be between years 1900 and 2100">>
              ELSE << >>)

\* validateEventData: the ordered list of messages, empty when valid
validateEventData(eventData, t) ==
  TitleErrors(eventData.title)
  \o OptionalTextErrors(eventData.description, DescriptionMax,
                        "Description must be a string",
                        "Description must not exceed 500 characters")
  \o OptionalTextErrors(eventData.address, AddressMax,
                        "Address must be a string",
                        "Address must not exceed 200 characters")
  \o DateErrors(eventData.date, t)

(***************************************************************************)
(* Events: storage statements.                                              *)
(***************************************************************************)
\* x || null for a text bound to a statement
OrNull(v) == IF Truthy(v) THEN v ELSE Null

\* COALESCE(?, column)
Coalesce(v, column) == IF v.type = "null" THEN column ELSE v

\* findEventByIdStmt: the rows with this id (none or one)
findById(id) == {e \in events : e.id = id}

\* findEventsByUserIdStmt
findByUserId(userId) == {e \in events : e.user_id = userId}

\* findRegistrationStmt
findRegistration(eventId, userId) ==
  {r \in regs : r.event_id = eventId /\ r.user_id = userId}

\* getRegistrationCountStmt
getRegistrationCount(eventId) ==
  Cardinality({r \in regs : r.event_id = eventId})

\* FOREIGN KEY (user_id) REFERENCES users (id)
UserKeyExists(userId) == \E u \in users : u.id = userId

\* FOREIGN KEY (event_id) REFERENCES events (id)
EventKeyExists(eventId) == \E e \in events : e.id = eventId

\* a registrations table declared without its UNIQUE constraint
UniqueViolationOff(rows, eventId, userId) == FALSE

\* UNIQUE(event_id, user_id)
UniqueViolation(rows, eventId, userId) ==
  \E r \in rows : r.event_id = eventId /\ r.user_id = userId

\* an update statement that forgets the id in its WHERE clause
updateEventRowsByUser(evs, updateData, id, userId) ==
  {IF e.user_id = userId
   THEN [e EXCEPT !.title = Coalesce(OrNull(updateData.title), e.title),
                  !.description = Coalesce(OrNull(updateData.description),
                                           e.description),
                  !.address = Coalesce(OrNull(updateData.address), e.address),
                  !.date = Coalesce(OrNull(updateData.date), e.date)]
   ELSE e : e \in evs}

\* updateEventStmt: the events table after the statement
updateEventRows(evs, updateData, id, userId) ==
  {IF e.id = id /\ e.user_id = userId
   THEN [e EXCEPT !.title = Coalesce(OrNull(updateData.title), e.title),
                  !.description = Coalesce(OrNull(updateData.description),
                                           e.description),
                  !.address = Coalesce(OrNull(updateData.address), e.address),
                  !.date = Coalesce(OrNull(updateData.date), e.date)]
   ELSE e : e \in evs}

\* deleteEventStmt: the events table after the statement
deleteEventRows(evs, id, userId) ==
  {e \in evs : ~(e.id = id /\ e.user_id = userId)}

\* foreign keys left off: registrations outlive their event
cascadeRegistrationsOff(rs, evs) == rs

\* ON DELETE CASCADE of event_registrations.event_id
cascadeRegistrations(rs, evs) ==
  {r \in rs : \E e \in evs : e.id = r.event_id}

\* a statement that forgets the user in its WHERE clause
unregisterRowsByEvent(rs, eventId, userId) ==
  {r \in rs : r.event_id # eventId}

\* a statement that forgets the event in its WHERE clause
unregisterRowsByUser(rs, eventId, userId) ==
  {r \in rs : r.user_id # userId}

\* unregisterFromEventStmt: the registrations table after the statement
unregisterRows(rs, eventId, userId) ==
  {r \in rs : ~(r.event_id = eventId /\ r.user_id = userId)}

(***************************************************************************)
(* Event handlers.  c is the identity the authentication middleware took    *)
(* from the token; idParam is parseInt(req.params.id), NaN when it is not   *)
(* a number.                                                                *)
(***************************************************************************)
Respond(r) ==
  /\ last' = r
  /\ UNCHANGED <<users, events, regs, tokens, now, pending>>

\* a duplicate test that compares the titles as written
isDuplicateEventExact(event, sanitizedEventData) ==
  /\ event.title.val = sanitizedEventData.title.val
  /\ DateParse(event.date) = DateParse(sanitizedEventData.date)

\* the duplicate test of eventsController.createEvent
isDuplicateEvent(event, sanitizedEventData) ==
  /\ toLowerCase(event.title.val) = toLowerCase(sanitizedEventData.title.val)
  /\ DateParse(event.date) = DateParse(sanitizedEventData.date)

\* a createEvent that inserts the row before it looks for a duplicate
CreateEventInsertFirst(c, body) ==
  LET sanitized == [title |-> Str(sanitizeText(body.title)),
                    date |-> toISOString(DateParse(body.date))]
      newEvent == [id |-> NextRowId(events), title |-> sanitized.title,
                   description |-> Null, address |-> Null,
                   date |-> sanitized.date, user_id |-> c.id]
  IN
  IF validateEventData(body, now) # << >> THEN
    Respond(Response("create", 400, "VALIDATION_FAILED"))
  ELSE
    /\ NextRowId(events) <= MaxEventId
    /\ events' = events \cup {newEvent}
    /\ last' = IF \E e \in findByUserId(c.id) : isDuplicateEvent(e, sanitized)
               THEN Response("create", 409, "CONFLICT")
               ELSE Response("create", 201, "OK")
    /\ UNCHANGED <<users, regs, tokens, now, pending>>

\* eventsController.createEvent with eventsModel.createEvent
CreateEvent(c, body) ==
  LET validationErrors == validateEventData(body, now)
      sanitizedEventData ==
        [title |-> Str(sanitizeText(body.title)),
         description |-> IF Truthy(body.description)
                         THEN Str(sanitizeText(body.description)) ELSE Null,
         address |-> IF Truthy(body.address)
                     THEN Str(sanitizeText(body.address)) ELSE Null,
         date |-> toISOString(DateParse(body.date)),
         user_id |-> c.id]
      existingEvents == findByUserId(c.id)
      id == NextRowId(events)
      newEvent == [id |-> id,
                   title |-> sanitizedEventData.title,
                   description |-> OrNull(sanitizedEventData.description),
                   address |-> OrNull(sanitizedEventData.address),
                   date |-> sanitizedEventData.date,
                   user_id |-> sanitizedEventData.user_id]
  IN
  IF validationErrors # << >> THEN
    Respond(Response("create", 400, "VALIDATION_FAILED"))
  ELSE IF \E e \in existingEvents : isDuplicateEvent(e, sanitizedEventData) THEN
    Respond(Response("create", 409, "CONFLICT"))
  ELSE IF ~UserKeyExists(c.id) THEN
    Respond([Response("create", 400, "INVALID_USER")
               EXCEPT !.code = "SQLITE_CONSTRAINT_FOREIGNKEY"])
  ELSE
    /\ id <= MaxEventId
    /\ events' = events \cup {newEvent}
    /\ last' = Response("create", 201, "OK")
    /\ UNCHANGED <<users, regs, tokens, now, pending>>

\* field checks that hold an update's date to the rules of a new event
UpdateErrorsAsCreate(body, t) ==
  IF body.date.type = "undefined" THEN << >> ELSE DateErrors(body.date, t)

\* the field checks of eventsController.updateEvent
UpdateErrors(body, t) ==
  (IF body.title.type = "undefined" THEN << >>
   ELSE IF body.title.type # "string"
           \/ Len(sanitizeText(body.title)) < TitleMin
   THEN <<"Title must be at least 3 characters long">>
   ELSE IF Len(sanitizeText(body.title)) > TitleMax
   THEN <<"Title must not exceed 100 characters">>
   ELSE << >>)
  \o (IF body.description.type = "undefined" THEN << >>
      ELSE IF body.description.type \notin {"null", "string"}
      THEN <<"Description must be a string">>
      ELSE IF Truthy(body.description)
              /\ Len(sanitizeText(body.description)) > DescriptionMax
      THEN <<"Description must not exceed 500 characters">>
      ELSE << >>)
  \o (IF body.address.type = "undefined" THEN << >>
      ELSE IF body.address.type \notin {"null", "string"}
      THEN <<"Address must be a string">>
      ELSE IF Truthy(body.address)
              /\ Len(sanitizeText(body.address)) > AddressMax
      THEN <<"Address must not exceed 200 characters">>
      ELSE << >>)
  \o (IF body.date.type = "undefined" THEN << >>
      ELSE IF ~isValidDate(body.date)
      THEN <<"Please provide a valid date in ISO format">>
      ELSE IF DateParse(body.date) <= t
      THEN <<"Event date must be in the future">>
      ELSE << >>)

\* an updateData that takes the texts as they were written
UpdateDataRaw(body) ==
  [title |-> body.title,
   description |-> IF Truthy(body.description) THEN body.description
                   ELSE IF body.description.type = "undefined" THEN Undefined
                   ELSE Null,
   address |-> IF Truthy(body.address) THEN body.address
               ELSE IF body.address.type = "undefined" THEN Undefined
               ELSE Null,
   date |-> IF body.date.type = "undefined" THEN Undefined
            ELSE toISOString(DateParse(body.date))]

\* the updateData that eventsController.updateEvent builds from a valid body
UpdateData(body) ==
  [title |-> IF body.title.type = "undefined" THEN Undefined
             ELSE Str(sanitizeText(body.title)),
   description |-> IF body.description.type = "undefined" THEN Undefined
                   ELSE IF Truthy(body.description)
                   THEN Str(sanitizeText(body.description)) ELSE Null,
   address |-> IF body.address.type = "undefined" THEN Undefined
               ELSE IF Truthy(body.address)
               THEN Str(sanitizeText(body.address)) ELSE Null,
   date |-> IF body.date.type = "undefined" THEN Undefined
            ELSE toISOString(DateParse(body.date))]

\* the lookup of the earlier model, which filtered by id and owner at once
ownerCheckFiltered(existingEvent, userId) ==
  IF \E e \in existingEvent : e.user_id = userId
  THEN "PASS" ELSE "EVENT_NOT_FOUND"

\* the lookup comparing an id of the wrong type: never the owner
ownerCheckMismatch(existingEvent, userId) ==
  IF existingEvent = {} THEN "EVENT_NOT_FOUND" ELSE "UNAUTHORIZED"

\* a lookup that does not compare the caller with the owner
ownerCheckExistsOnly(existingEvent, userId) ==
  IF existingEvent = {} THEN "EVENT_NOT_FOUND" ELSE "PASS"

\* the lookup that opens eventsModel.updateEvent and eventsModel.deleteEvent:
\* the error it returns, or "PASS"
ownerCheck(existingEvent, userId) ==
  IF existingEvent = {} THEN "EVENT_NOT_FOUND"
  ELSE IF \E e \in existingEvent : e.user_id # userId THEN "UNAUTHORIZED"
  ELSE "PASS"

\* the status the controller gives an error of the model
ownerStatus(kind) ==
  CASE kind = "EVENT_NOT_FOUND" -> 404
    [] kind = "UNAUTHORIZED" -> 403
    [] OTHER -> 400

\* an updateEvent that looks the event up before it checks the fields
UpdateEventLookupFirst(c, idParam, body) ==
  LET validationErrors == UpdateErrors(body, now)
      existingEvent == findById(idParam)
      after == updateEventRows(events, UpdateData(body), idParam, c.id)
  IN
  IF idParam = NaN THEN
    Respond(Response("update", 400, "INVALID_ID"))
  ELSE IF ownerCheck(existingEvent, c.id) # "PASS" THEN
    Respond(Response("update", ownerStatus(ownerCheck(existingEvent, c.id)),
                     ownerCheck(existingEvent, c.id)))
  ELSE IF validationErrors # << >> THEN
    Respond(Response("update", 400, "VALIDATION_FAILED"))
  ELSE
    /\ events' = after
    /\ last' = Response("update", 200, "OK")
    /\ UNCHANGED <<users, regs, tokens, now, pending>>

\* eventsController.updateEvent with eventsModel.updateEvent
UpdateEvent(c, idParam, body) ==
  LET validationErrors == UpdateErrors(body, now)
      existingEvent == findById(idParam)
      after == updateEventRows(events, UpdateData(body), idParam, c.id)
      changes == Cardinality({e \in events :
                                e.id = idParam /\ e.user_id = c.id})
  IN
  IF idParam = NaN THEN
    Respond(Response("update", 400, "INVALID_ID"))
  ELSE IF validationErrors # << >> THEN
    Respond(Response("update", 400, "VALIDATION_FAILED"))
  ELSE IF ownerCheck(existingEvent, c.id) # "PASS" THEN
    Respond(Response("update", ownerStatus(ownerCheck(existingEvent, c.id)),
                     ownerCheck(existingEvent, c.id)))
  ELSE IF changes = 0 THEN
    Respond(Response("update", 400, "UPDATE_FAILED"))
  ELSE
    /\ events' = after
    /\ last' = Response("update", 200, "OK")
    /\ UNCHANGED <<users, regs, tokens, now, pending>>

\* eventsController.deleteEvent with eventsModel.deleteEvent
DeleteEvent(c, idParam) ==
  LET existingEvent == findById(idParam)
      after == deleteEventRows(events, idParam, c.id)
  IN
  IF idParam = NaN THEN
    Respond(Response("delete", 400, "INVALID_ID"))
  ELSE IF ownerCheck(existingEvent, c.id) # "PASS" THEN
    Respond(Response("delete", ownerStatus(ownerCheck(existingEvent, c.id)),
                     ownerCheck(existingEvent, c.id)))
  ELSE IF after = events THEN
    Respond(Response("delete", 400, "DELETE_FAILED"))
  ELSE
    /\ events' = after
    /\ regs' = cascadeRegistrations(regs, after)
    /\ last' = Response("delete", 200, "OK")
    /\ UNCHANGED <<users, tokens, now, pending>>

(***************************************************************************)
(* The earlier variant of update and delete: the model function runs the    *)
(* statement at once, and the controller reports one not-found outcome when *)
(* no row was changed.                                                      *)
(***************************************************************************)
\* the earlier updateEvent: the events table it leaves and its response
updateEventEarlier(c, idParam, body) ==
  LET after == updateEventRows(events, UpdateData(body), idParam, c.id)
      changes == Cardinality({e \in events :
                                e.id = idParam /\ e.user_id = c.id})
  IN
  IF idParam = NaN
  THEN [events |-> events, status |-> 400, kind |-> "INVALID_ID"]
  ELSE IF UpdateErrors(body, now) # << >>
  THEN [events |-> events, status |-> 400, kind |-> "VALIDATION_FAILED"]
  ELSE IF changes = 0
  THEN [events |-> events, status |-> 404, kind |-> "EVENT_NOT_FOUND"]
  ELSE [events |-> after, status |-> 200, kind |-> "OK"]

UpdateEventEarlier(c, idParam, body) ==
  /\ events' = updateEventEarlier(c, idParam, body).events
  /\ last' = Response("update-earlier",
                      updateEventEarlier(c, idParam, body).status,
                      updateEventEarlier(c, idParam, body).kind)
  /\ UNCHANGED <<users, regs, tokens, now, pending>>

\* the earlier deleteEvent: the tables it leaves and its response
deleteEventEarlier(c, idParam) ==
  LET after == deleteEventRows(events, idParam, c.id) IN
  IF idParam = NaN
  THEN [events |-> events, regs |-> regs, status |-> 400,
        kind |-> "INVALID_ID"]
  ELSE IF after = events
  THEN [events |-> events, regs |-> regs, status |-> 404,
        kind |-> "EVENT_NOT_FOUND"]
  ELSE [events |-> after, regs |-> cascadeRegistrations(regs, after),
        status |-> 200, kind |-> "OK"]

DeleteEventEarlier(c, idParam) ==
  /\ events' = deleteEventEarlier(c, idParam).events
  /\ regs' = deleteEventEarlier(c, idParam).regs
  /\ last' = Response("delete-earlier", deleteEventEarlier(c, idParam).status,
                      deleteEventEarlier(c, idParam).kind)
  /\ UNCHANGED <<users, tokens, now, pending>>

(***************************************************************************)
(* Registration.                                                            *)
(***************************************************************************)
\* the checks without the comparison of the caller with the owner
registerPrecheckNoOwner(eventId, userId, t) ==
  LET event == {e \in events : e.id = eventId} IN
  IF event = {} THEN "EVENT_NOT_FOUND"
  ELSE IF {r \in regs : r.event_id = eventId /\ r.user_id = userId} # {}
  THEN "ALREADY_REGISTERED"
  ELSE IF \E e \in event : DateParse(e.date) <= t THEN "EVENT_PAST"
  ELSE "PASS"

\* the checks with the date compared by < instead of <=
registerPrecheckLate(eventId, userId, t) ==
  LET event == {e \in events : e.id = eventId} IN
  IF event = {} THEN "EVENT_NOT_FOUND"
  ELSE IF \E e \in event : e.user_id = userId THEN "SELF_REGISTRATION"
  ELSE IF {r \in regs : r.event_id = eventId /\ r.user_id = userId} # {}
  THEN "ALREADY_REGISTERED"
  ELSE IF \E e \in event : DateParse(e.date) < t THEN "EVENT_PAST"
  ELSE "PASS"

\* the checks with the date looked at before the owner and the registration
registerPrecheckDateFirst(eventId, userId, t) ==
  LET event == findById(eventId) IN
  IF event = {} THEN "EVENT_NOT_FOUND"
  ELSE IF \E e \in event : DateParse(e.date) <= t THEN "EVENT_PAST"
  ELSE IF \E e \in event : e.user_id = userId THEN "SELF_REGISTRATION"
  ELSE IF findRegistration(eventId, userId) # {} THEN "ALREADY_REGISTERED"
  ELSE "PASS"

\* the checks eventsModel.registerForEvent makes before its insert:
\* the error it returns, or "PASS"
registerPrecheck(eventId, userId, t) ==
  LET event == findById(eventId) IN
  IF event = {} THEN "EVENT_NOT_FOUND"
  ELSE IF \E e \in event : e.user_id = userId THEN "SELF_REGISTRATION"
  ELSE IF findRegistration(eventId, userId) # {} THEN "ALREADY_REGISTERED"
  ELSE IF \E e \in event : DateParse(e.date) <= t THEN "EVENT_PAST"
  ELSE "PASS"

registerStatus(kind) ==
  CASE kind = "EVENT_NOT_FOUND" -> 404
    [] kind = "SELF_REGISTRATION" -> 400
    [] kind = "ALREADY_REGISTERED" -> 409
    [] kind = "EVENT_PAST" -> 400
    [] OTHER -> 400

\* a catch block that does not tell the uniqueness error from any other
registerCatchGeneric(code) ==
  [Response("register", 500, "INTERNAL") EXCEPT !.code = code]

\* the catch block of eventsModel.registerForEvent and, for an error it
\* rethrows, the catch block of the controller
registerCatch(code) ==
  IF code = "SQLITE_CONSTRAINT_UNIQUE"
  THEN [Response("register", 409, "ALREADY_REGISTERED") EXCEPT !.code = code]
  ELSE [Response("register", 500, "INTERNAL") EXCEPT !.code = code]

\* registerForEventStmt.run and what registerForEvent and the controller
\* make of its result or of the error it throws
registerInsert(c, eventId) ==
  LET id == NextRowId(regs)
      row == [id |-> id, event_id |-> eventId, user_id |-> c.id,
              registered_at |-> now]
  IN
  IF UniqueViolation(regs, eventId, c.id) THEN
    /\ last' = registerCatch("SQLITE_CONSTRAINT_UNIQUE")
    /\ UNCHANGED <<users, events, regs, tokens, now>>
  ELSE IF ~EventKeyExists(eventId) \/ ~UserKeyExists(c.id) THEN
    /\ last' = registerCatch("SQLITE_CONSTRAINT_FOREIGNKEY")
    /\ UNCHANGED <<users, events, regs, tokens, now>>
  ELSE
    /\ id <= MaxRegId
    /\ regs' = regs \cup {row}
    /\ last' = Response("register", 201, "OK")
    /\ UNCHANGED <<users, events, tokens, now>>

\* eventsController.registerForEvent with eventsModel.registerForEvent,
\* run without interruption
RegisterForEvent(c, idParam) ==
  LET kind == registerPrecheck(idParam, c.id, now) IN
  IF idParam = NaN THEN
    Respond(Response("register", 400, "INVALID_ID"))
  ELSE IF kind # "PASS" THEN
    Respond(Response("register", registerStatus(kind), kind))
  ELSE
    /\ registerInsert(c, idParam)
    /\ UNCHANGED pending

\* the waiting calls of caller c for event eventId
waiting(c, eventId) == {p \in pending : p.caller = c /\ p.event = eventId}

\* the same handler up to its insert, when another process shares the
\* database file: the call passes its checks and waits to insert
RegisterCheck(c, idParam) ==
  LET kind == registerPrecheck(idParam, c.id, now) IN
  IF idParam = NaN THEN
    Respond(Response("register", 400, "INVALID_ID"))
  ELSE IF kind # "PASS" THEN
    Respond(Response("register", registerStatus(kind), kind))
  ELSE
    /\ Cardinality(pending) < MaxPending
    /\ pending' = pending \cup
         {[caller |-> c, event |-> idParam,
           k |-> Cardinality(waiting(c, idParam)) + 1]}
    /\ UNCHANGED <<users, events, regs, tokens, now, last>>

\* a waiting call runs its insert
RegisterInsert(p) ==
  /\ p \in pending
  /\ p.k = Cardinality(waiting(p.caller, p.event))
  /\ pending' = pending \ {p}
  /\ registerInsert(p.caller, p.event)

\* eventsController.unregisterFromEvent with eventsModel.unregisterFromEvent
UnregisterFromEvent(c, idParam) ==
  LET after == unregisterRows(regs, idParam, c.id) IN
  IF idParam = NaN THEN
    Respond(Response("unregister", 400, "INVALID_ID"))
  ELSE IF findById(idParam) = {} THEN
    Respond(Response("unregister", 404, "EVENT_NOT_FOUND"))
  ELSE IF findRegistration(idParam, c.id) = {} THEN
    Respond(Response("unregister", 400, "NOT_REGISTERED"))
  ELSE IF after = regs THEN
    Respond(Response("unregister", 400, "UNREGISTER_FAILED"))
  ELSE
    /\ regs' = after
    /\ last' = Response("unregister", 200, "OK")
    /\ UNCHANGED <<users, events, tokens, now, pending>>

(***************************************************************************)
(* Listings.                                                                *)
(***************************************************************************)
\* the sequences that list every row of a set once; an ORDER BY keeps those
\* in which no row comes before a row it should follow (rows the order does
\* not tell apart may come either way)
Arrangements(rows) ==
  {q \in [1..Cardinality(rows) -> rows] :
     \A i, j \in 1..Cardinality(rows) : q[i] = q[j] => i = j}

\* getEventRegistrationsStmt: the rows it selects
getEventRegistrationsRows(eventId) ==
  LET joined(r) == {[id |-> r.id, event_id |-> r.event_id,
                     user_id |-> r.user_id,
                     registered_at |-> r.registered_at,
                     email |-> u.email, name |-> u.name] :
                      u \in {v \in users : v.id = r.user_id}}
  IN UNION {joined(r) : r \in {x \in regs : x.event_id = eventId}}

\* ORDER BY er.registered_at DESC
byRegisteredAtDesc(x, y) == x.registered_at >= y.registered_at

\* ORDER BY er.registered_at ASC
byRegisteredAt(x, y) == x.registered_at <= y.registered_at

\* eventsController.getEventRegistrations with
\* eventsModel.getEventRegistrations and eventsModel.getRegistrationCount
GetEventRegistrations(c, idParam) ==
  LET event == findById(idParam)
      shown(reg) == [id |-> reg.id,
                     user |-> [id |-> reg.user_id, email |-> reg.email,
                               name |-> reg.name],
                     registered_at |-> reg.registered_at]
  IN
  IF idParam = NaN THEN
    Respond(Response("registrations", 400, "INVALID_ID"))
  ELSE IF event = {} THEN
    Respond(Response("registrations", 404, "EVENT_NOT_FOUND"))
  ELSE IF \E e \in event : e.user_id # c.id THEN
    Respond(Response("registrations", 403, "UNAUTHORIZED"))
  ELSE
    \E registrations \in
         {q \in Arrangements(getEventRegistrationsRows(idParam)) :
            \A i, j \in DOMAIN q : i < j => byRegisteredAt(q[i], q[j])} :
      Respond([Response("registrations", 200, "OK") EXCEPT
                 !.count = getRegistrationCount(idParam),
                 !.body = [i \in 1..Len(registrations) |->
                             shown(registrations[i])]])

\* getUserRegistrationsStmt: the rows it selects
getUserRegistrationsRows(userId) ==
  LET joined(r) == {[id |-> e.id, title |-> e.title,
                     description |-> e.description, address |-> e.address,
                     date |-> e.date, user_id |-> e.user_id,
                     registered_at |-> r.registered_at,
                     owner_email |-> u.email, owner_name |-> u.name] :
                      e \in {x \in events : x.id = r.event_id},
                      u \in users}
  IN {row \in UNION {joined(r) : r \in {x \in regs : x.user_id = userId}} :
        \E u \in users : u.id = row.user_id /\ u.email = row.owner_email
                         /\ u.name = row.owner_name}

\* ORDER BY e.date ASC, on the column as stored
byDate(x, y) == TextLeq(x.date.val, y.date.val)

\* eventsController.getUserRegistrations with eventsModel.getUserRegistrations
GetUserRegistrations(c) ==
  LET shown(reg) == [registration_id |-> reg.id,
                     registered_at |-> reg.registered_at,
                     event |-> [id |-> reg.id, title |-> reg.title,
                                description |-> reg.description,
                                address |-> reg.address, date |-> reg.date,
                                owner |-> [email |-> reg.owner_email,
                                           name |-> reg.owner_name]]]
  IN
  \E registrations \in
       {q \in Arrangements(getUserRegistrationsRows(c.id)) :
          \A i, j \in DOMAIN q : i < j => byDate(q[i], q[j])} :
    Respond([Response("my-registrations", 200, "OK") EXCEPT
               !.body = [i \in 1..Len(registrations) |->
                           shown(registrations[i])]])

(***************************************************************************)
(* Requests.                                                                *)
(***************************************************************************)
SignupBodies ==
  {[email |-> e, password |-> Str(<<"s", "e", "c", "r", "e", "t">>),
    name |-> Undefined] :
     e \in {Str(<<"a", "@", "x", ".", "i", "o">>),
            Str(<<"b", "@", "x", ".", "i", "o">>),
            Str(<<"a", "@", "x">>),
            Undefined}}
  \cup {[email |-> Str(<<"a", "@", "x", ".", "i", "o">>),
         password |-> Str(<<"s", "e", "c">>), name |-> Undefined]}

Abc == Str(<<"a", "b", "c">>)

DateInput(wall, zone) == Str(<<Digits[wall + 1], zone>>)

\* the instants a request may name
Instants == 0..(MaxTime + OneYear + 1)

NoText == [description |-> Undefined, address |-> Undefined]

Body(title, date, text) ==
  [title |-> title, description |-> text.description,
   address |-> text.address, date |-> date]

\* bodies that name a title and a date
DatedBodies ==
  {Body(Abc, DateInput(w, "Z"), NoText) : w \in Instants}

\* bodies that fail a check of the validation
InvalidBodies ==
  {Body(Str(<<"a", "b", " ">>), DateInput(MaxTime + 1, "Z"), NoText),
   Body(Abc, Str(<<"x">>), NoText)}

CreateBodies == DatedBodies \cup InvalidBodies

\* the requests of the specification with overtaking
RaceBodies == {Body(Abc, DateInput(w, "Z"), NoText) : w \in 1..(MaxTime + 1)}

RaceUpdateBodies == {Body(Abc, Undefined, NoText)}

\* a date in a year written with a sign
ExtendedDateInput(wall, zone) == Str(<<"+", Digits[wall + 1], zone>>)

\* the signups of the specification of the listings: three users
ListSignupBodies ==
  {[email |-> Str(<<e, "@", "x", ".", "i", "o">>),
    password |-> Str(<<"s", "e", "c", "r", "e", "t">>),
    name |-> Undefined] : e \in {"a", "b", "c"}}

\* the events of the specification of an event's listing
ListBodies == {Body(Abc, DateInput(1, "Z"), NoText)}

\* the update requests of the specification of an event's listing: the
\* event is put off
PostponeBodies == {Body(Undefined, DateInput(MaxTime + 1, "Z"), NoText)}

\* the update requests of the specification of a user's listing: the event
\* is moved to the year 10000
ListUpdateBodies == {Body(Undefined, ExtendedDateInput(0, "Z"), NoText)}

\* the update requests of the specification of event access: a new title, a
\* new date, a title that is too short
AccessUpdateBodies ==
  {Body(Abc, Undefined, NoText),
   Body(Undefined, DateInput(MaxTime + 1, "Z"), NoText),
   Body(Str(<<"a", "b", " ">>), Undefined, NoText)}

\* titles and dates written in several ways
CrudBodies ==
  {Body(t, d, NoText) :
     t \in {Abc, Str(<<" ", "A", "b", "c", " ">>), Str(<<"a", " ", " ", "c">>)},
     d \in {DateInput(w, "Z") : w \in 1..(MaxTime + 1)}
           \cup {DateInput(2, "+1")}}
  \cup InvalidBodies

CrudUpdateBodies ==
  {Body(Undefined, DateInput(w, "Z"), NoText) : w \in {0, MaxTime + OneYear + 1}}
  \cup {Body(Str(<<"A", "B", "C", " ">>), Undefined, NoText),
        Body(Undefined, Undefined, NoText)}
  \cup InvalidBodies

UpdateBodies ==
  {Body(Undefined, DateInput(w, "Z"), NoText) : w \in Instants}
  \cup {Body(Abc, Undefined, NoText)}
  \cup InvalidBodies

\* the events of the specification of partial updates: with and without a
\* description and an address
FieldBodies ==
  {Body(Abc, DateInput(1, "Z"), NoText),
   Body(Abc, DateInput(1, "Z"),
        [description |-> Str(<<" ", "d", " ", " ", "e">>),
         address |-> Str(<<"x">>)])}

\* the update requests of the specification of partial updates
FieldUpdateBodies ==
  {Body(Str(<<" ", "A", "b", "d", " ">>), Undefined, NoText),
   Body(Undefined, Undefined, NoText),
   Body(Undefined, Str(<<"x">>), NoText)}
  \cup {Body(Undefined, DateInput(w, "Z"), NoText) :
          w \in {0, 1, MaxTime + OneYear + 1}}
  \cup {Body(Undefined, Undefined, [description |-> d, address |-> Undefined]) :
          d \in {Str(<<"n", " ", " ", "w">>), Str(<< >>), Str(<<" ", " ">>),
                 Null, Num42}}
  \cup {Body(Undefined, Undefined, [description |-> Undefined, address |-> a]) :
          a \in {Str(<<"q">>), Null}}

EventIdParams == (1..MaxEventId) \cup {NaN}

\* the clock advances
Tick ==
  /\ now < MaxTime
  /\ now' = now + 1
  /\ UNCHANGED <<users, events, regs, tokens, pending, last>>


\* the handlers of one server process: each runs to completion
Next ==
  \/ \E b \in SignupBodies : Signup(b) /\ UNCHANGED aside
  \/ \E c \in tokens, b \in CreateBodies : CreateEvent(c, b) /\ UNCHANGED aside
  \/ \E c \in tokens, id \in EventIdParams, b \in UpdateBodies :
       UpdateEvent(c, id, b) /\ UNCHANGED aside
  \/ \E c \in tokens, id \in EventIdParams :
       DeleteEvent(c, id) /\ UNCHANGED aside
  \/ \E c \in tokens, id \in EventIdParams :
       RegisterForEvent(c, id) /\ UNCHANGED aside
  \/ \E c \in tokens, id \in EventIdParams :
       UnregisterFromEvent(c, id) /\ UNCHANGED aside
  \/ Tick /\ UNCHANGED aside

Spec == Init /\ [][Next]_vars

\* the handlers when several server processes share the database file:
\* a register call may be overtaken between its checks and its insert
RaceNext ==
  \/ \E b \in SignupBodies : Signup(b) /\ UNCHANGED aside
  \/ \E c \in tokens, b \in RaceBodies : CreateEvent(c, b) /\ UNCHANGED aside
  \/ \E c \in tokens, id \in 1..MaxEventId, b \in RaceUpdateBodies :
       UpdateEvent(c, id, b) /\ UNCHANGED aside
  \/ \E c \in tokens, id \in 1..MaxEventId :
       DeleteEvent(c, id) /\ UNCHANGED aside
  \/ \E c \in tokens, id \in 1..MaxEventId :
       RegisterForEvent(c, id) /\ UNCHANGED aside
  \/ \E c \in tokens, id \in 1..MaxEventId :
       RegisterCheck(c, id) /\ UNCHANGED aside
  \/ \E p \in pending : RegisterInsert(p) /\ UNCHANGED aside
  \/ \E c \in tokens, id \in 1..MaxEventId :
       UnregisterFromEvent(c, id) /\ UNCHANGED aside
  \/ Tick /\ UNCHANGED aside

RaceSpec == Init /\ [][RaceNext]_vars

\* event creation, update and deletion with titles and dates written in
\* several ways
CrudNext ==
  \/ \E b \in SignupBodies : Signup(b) /\ UNCHANGED aside
  \/ \E c \in tokens, b \in CrudBodies : CreateEvent(c, b) /\ UNCHANGED aside
  \/ \E c \in tokens, id \in EventIdParams, b \in CrudUpdateBodies :
       UpdateEvent(c, id, b) /\ UNCHANGED aside
  \/ \E c \in tokens, id \in EventIdParams :
       DeleteEvent(c, id) /\ UNCHANGED aside
  \/ Tick /\ UNCHANGED aside

CrudSpec == Init /\ [][CrudNext]_vars

\* event creation, update and deletion by several callers
AccessNext ==
  \/ \E b \in SignupBodies : Signup(b) /\ UNCHANGED aside
  \/ \E c \in tokens, b \in RaceBodies : CreateEvent(c, b) /\ UNCHANGED aside
  \/ \E c \in tokens, id \in EventIdParams, b \in AccessUpdateBodies :
       UpdateEvent(c, id, b) /\ UNCHANGED aside
  \/ \E c \in tokens, id \in EventIdParams :
       DeleteEvent(c, id) /\ UNCHANGED aside
  \/ Tick /\ UNCHANGED aside

AccessSpec == Init /\ [][AccessNext]_vars

\* A walk-through: after any history of requests, user a creates an event,
\* user b registers for it twice, a tries to register, a deletes the event.
\* The five requests follow each other within the week before the event.
Idle == scen.step = 0 /\ UNCHANGED aside

History ==
  \/ \E b \in SignupBodies : Signup(b) /\ Idle
  \/ \E c \in tokens, b \in RaceBodies : CreateEvent(c, b) /\ Idle
  \/ \E c \in tokens, id \in 1..MaxEventId : RegisterForEvent(c, id) /\ Idle
  \/ \E c \in tokens, id \in 1..MaxEventId : DeleteEvent(c, id) /\ Idle
  \/ Tick /\ Idle

\* a creates the event, dated one week ahead, with a title a has not used
ScenarioCreate ==
  \E a \in tokens, b \in tokens :
    /\ scen.step = 0
    /\ a.id # b.id
    /\ UserKeyExists(a.id) /\ UserKeyExists(b.id)
    /\ findByUserId(a.id) = {}
    /\ CreateEvent(a, Body(Abc, toISOString(now + OneWeek), NoText))
    /\ scen' = [step |-> 1, a |-> a.id, b |-> b.id, e |-> NextRowId(events)]
    /\ UNCHANGED <<hashing, sample, issued>>

\* the token of a user of the walk-through
tokenOf(userId) == CHOOSE c \in tokens : c.id = userId

ScenarioRegister(step, userId) ==
  /\ scen.step = step
  /\ RegisterForEvent(tokenOf(userId), scen.e)
  /\ scen' = [scen EXCEPT !.step = step + 1]
  /\ UNCHANGED <<hashing, sample, issued>>

ScenarioDelete ==
  /\ scen.step = 4
  /\ DeleteEvent(tokenOf(scen.a), scen.e)
  /\ scen' = [scen EXCEPT !.step = 5]
  /\ UNCHANGED <<hashing, sample, issued>>

ScenarioNext ==
  \/ History
  \/ ScenarioCreate
  \/ ScenarioRegister(1, scen.b)
  \/ ScenarioRegister(2, scen.b)
  \/ ScenarioRegister(3, scen.a)
  \/ ScenarioDelete

ScenarioSpec == Init /\ [][ScenarioNext]_vars

\* partial updates of an event; one event is created
FieldNext ==
  \/ \E b \in SignupBodies : Signup(b) /\ UNCHANGED aside
  \/ \E c \in tokens, b \in FieldBodies :
       events = {} /\ CreateEvent(c, b) /\ UNCHANGED aside
  \/ \E c \in tokens, id \in 1..MaxEventId, b \in FieldUpdateBodies :
       UpdateEvent(c, id, b) /\ UNCHANGED aside
  \/ Tick /\ UNCHANGED aside

FieldSpec == Init /\ [][FieldNext]_vars

\* the registrations of an event and their listing for its owner; one
\* event is created
ListNext ==
  \/ \E b \in ListSignupBodies : Signup(b) /\ UNCHANGED aside
  \/ \E c \in tokens, b \in ListBodies :
       events = {} /\ CreateEvent(c, b) /\ UNCHANGED aside
  \/ \E c \in tokens, id \in 1..MaxEventId, b \in PostponeBodies :
       UpdateEvent(c, id, b) /\ UNCHANGED aside
  \/ \E c \in tokens, id \in 1..MaxEventId :
       RegisterForEvent(c, id) /\ UNCHANGED aside
  \/ \E c \in tokens, id \in 1..MaxEventId :
       UnregisterFromEvent(c, id) /\ UNCHANGED aside
  \/ \E c \in tokens, id \in EventIdParams :
       GetEventRegistrations(c, id) /\ UNCHANGED aside
  \/ Tick /\ UNCHANGED aside

ListSpec == Init /\ [][ListNext]_vars

\* the events a user is registered for and their listing
MyListNext ==
  \/ \E b \in SignupBodies : Signup(b) /\ UNCHANGED aside
  \/ \E c \in tokens, b \in RaceBodies : CreateEvent(c, b) /\ UNCHANGED aside
  \/ \E c \in tokens, id \in 1..MaxEventId, b \in ListUpdateBodies :
       UpdateEvent(c, id, b) /\ UNCHANGED aside
  \/ \E c \in tokens, id \in 1..MaxEventId :
       RegisterForEvent(c, id) /\ UNCHANGED aside
  \/ \E c \in tokens, id \in 1..MaxEventId :
       UnregisterFromEvent(c, id) /\ UNCHANGED aside
  \/ \E c \in tokens : GetUserRegistrations(c) /\ UNCHANGED aside
  \/ Tick /\ UNCHANGED aside

MyListSpec == Init /\ [][MyListNext]_vars

\* the titles of the specification of title validation: missing, not a
\* string, and texts around both ends of the permitted length
TitleInputs ==
  {Undefined, Null, Num42, Str(<< >>), Str(<<" ", " ", " ">>),
   Str(<<"a", "b">>), Str(<<" ", "a", "b", " ">>), Str(<<"a", "\t", " ", "b">>),
   Abc, Str(Rep(TitleMax, "a")), Str(Rep(TitleMax + 1, "a")),
   Str(<<" ">> \o Rep(TitleMax, "a") \o <<" ", " ">>)}

\* the signups of the specification of title validation: one user
TitleSignupBodies ==
  {[email |-> Str(<<"a", "@", "x", ".", "i", "o">>),
    password |-> Str(<<"s", "e", "c", "r", "e", "t">>), name |-> Undefined],
   [email |-> Str(<<"a", "@", "x">>),
    password |-> Str(<<"s", "e", "c", "r", "e", "t">>), name |-> Undefined]}

TitleBodies ==
  {Body(t, DateInput(w, "Z"), NoText) : t \in TitleInputs, w \in 1..(MaxTime + 1)}

\* create requests with titles of every kind; the title of the request is
\* kept beside the response
TitleNext ==
  \/ \E b \in TitleSignupBodies : Signup(b) /\ UNCHANGED aside
  \/ \E c \in tokens, b \in TitleBodies :
       /\ CreateEvent(c, b)
       /\ sample' = [sample EXCEPT !.given = b.title]
       /\ UNCHANGED <<scen, hashing, issued>>
  \/ Tick /\ UNCHANGED aside

TitleSpec == Init /\ [][TitleNext]_vars

\* the values given to sanitizeText on its own: every text of letters and
\* whitespace up to the longest, and values that are not strings
SanitizeInputs ==
  {Str(t) : t \in UNION {[1..n -> {"a", "b", " ", "\t"}] : n \in 0..MaxLen}}
  \cup {Undefined, Null, Num42}

\* sanitizeText is given one of the values
SanitizeInit ==
  /\ users = {}
  /\ events = {}
  /\ regs = {}
  /\ tokens = {}
  /\ now = 0
  /\ pending = {}
  /\ last = NoResponse
  /\ scen = [step |-> 0, a |-> 0, b |-> 0, e |-> 0]
  /\ hashing = {}
  /\ sample \in {[stage |-> 0, given |-> g, once |-> << >>, twice |-> << >>] :
                   g \in SanitizeInputs}
  /\ issued = {}

\* sanitizeText applied to the value
SanitizeOnce ==
  /\ sample.stage = 0
  /\ sample' = [sample EXCEPT !.stage = 1, !.once = sanitizeText(sample.given)]
  /\ UNCHANGED <<users, events, regs, tokens, now, pending, last, scen, hashing, issued>>

\* sanitizeText applied to its own result
SanitizeTwice ==
  /\ sample.stage = 1
  /\ sample' = [sample EXCEPT !.stage = 2,
                              !.twice = sanitizeText(Str(sample.once))]
  /\ UNCHANGED <<users, events, regs, tokens, now, pending, last, scen, hashing, issued>>

SanitizeNext == SanitizeOnce \/ SanitizeTwice

SanitizeSpec == SanitizeInit /\ [][SanitizeNext]_vars

Secret == Str(<<"s", "e", "c", "r", "e", "t">>)

\* the signups of the specification of signup and login
AuthSignupBodies ==
  {[email |-> Str(<<e, "@", "x", ".", "i", "o">>), password |-> pw,
    name |-> Undefined] : e \in {"a", "b"}, pw \in {Secret, Num42}}
  \cup {[email |-> Str(<<"a", "@", "x">>), password |-> Secret,
         name |-> Undefined],
        [email |-> Str(<<"b", "@", "x", ".", "i", "o">>),
         password |-> Str(<<"s", "e", "c">>), name |-> Undefined]}

\* the logins: an email that signs up and one that never does, with the
\* password of the signups, another text, a number, and none
LoginBodies ==
  {[email |-> e, password |-> pw] :
     e \in {Str(<<"a", "@", "x", ".", "i", "o">>),
            Str(<<"c", "@", "x", ".", "i", "o">>), Undefined},
     pw \in {Secret, Str(<<"g", "u", "e", "s", "s", "1">>), Num42, Undefined}}

\* signups that wait for their hash while other requests run, and logins
AuthNext ==
  \/ \E req \in 1..MaxHashing, b \in AuthSignupBodies :
       SignupCheck(req, b) /\ UNCHANGED <<scen, sample, issued>>
  \/ \E h \in hashing : SignupInsert(h) /\ UNCHANGED <<scen, sample, issued>>
  \/ \E b \in LoginBodies : Login(b) /\ UNCHANGED aside

AuthSpec == Init /\ [][AuthNext]_vars

\* A registration cycle: after any history of requests a user registers for
\* an event, unregisters, and registers again; the clock may advance in
\* between.  scen keeps the user, the event and the registrations on file
\* before the first of the three requests.
CycleHistory ==
  \/ \E b \in ListSignupBodies : Signup(b) /\ Idle
  \/ \E c \in tokens, b \in RaceBodies : CreateEvent(c, b) /\ Idle
  \/ \E c \in tokens, id \in 1..MaxEventId : RegisterForEvent(c, id) /\ Idle
  \/ \E c \in tokens, id \in 1..MaxEventId : UnregisterFromEvent(c, id) /\ Idle

CycleRegister ==
  \E c \in tokens, id \in 1..MaxEventId :
    /\ scen.step = 0
    /\ registerPrecheck(id, c.id, now) = "PASS"
    /\ RegisterForEvent(c, id)
    /\ scen' = [step |-> 1, a |-> 0, b |-> c.id, e |-> id, before |-> regs]
    /\ UNCHANGED <<hashing, sample, issued>>

CycleUnregister ==
  /\ scen.step = 1
  /\ UnregisterFromEvent(tokenOf(scen.b), scen.e)
  /\ scen' = [scen EXCEPT !.step = 2]
  /\ UNCHANGED <<hashing, sample, issued>>

CycleRegisterAgain ==
  /\ scen.step = 2
  /\ RegisterForEvent(tokenOf(scen.b), scen.e)
  /\ scen' = [scen EXCEPT !.step = 3]
  /\ UNCHANGED <<hashing, sample, issued>>

CycleNext ==
  \/ CycleHistory
  \/ CycleRegister
  \/ CycleUnregister
  \/ CycleRegisterAgain
  \/ Tick /\ UNCHANGED aside

CycleSpec == Init /\ [][CycleNext]_vars

\* a text of n letters with whitespace around it
Padded(n, c) == Str(<<" ">> \o Rep(n, c) \o <<" ", " ">>)

\* descriptions and addresses of the specification of stored texts: none,
\* blank, with whitespace to remove, and around the permitted length
DescriptionInputs ==
  {Null, Str(<<" ", " ">>), Str(<<" ", "d", "\t", " ", "e">>),
   Padded(DescriptionMax, "d"), Str(Rep(DescriptionMax + 1, "d"))}

AddressInputs ==
  {Undefined, Str(<<"x", " ", " ", "y", " ">>),
   Padded(AddressMax, "x"), Str(Rep(AddressMax + 1, "x"))}

TextBodies ==
  {Body(t, DateInput(1, "Z"), [description |-> d, address |-> a]) :
     t \in {Abc, Str(<<" ", "a", "\t", " ", "b", " ">>)},
     d \in DescriptionInputs, a \in AddressInputs}
  \cup {Body(Padded(TitleMax, "t"), DateInput(1, "Z"), NoText)}

TextUpdateBodies ==
  {Body(t, Undefined, NoText) :
     t \in {Str(<<" ", "A", "b", " ", " ", "d">>), Padded(TitleMax, "u"),
            Str(Rep(TitleMax + 1, "u")), Str(<<" ", "a", " ">>)}}
  \cup {Body(Undefined, Undefined, [description |-> d, address |-> Undefined]) :
          d \in DescriptionInputs \cup {Num42}}
  \cup {Body(Undefined, Undefined, [description |-> Undefined, address |-> a]) :
          a \in (AddressInputs \ {Undefined}) \cup {Null}}

\* the creation of one event and its updates, with texts of every kind
TextNext ==
  \/ \E b \in TitleSignupBodies : Signup(b) /\ UNCHANGED aside
  \/ \E c \in tokens, b \in TextBodies :
       events = {} /\ CreateEvent(c, b) /\ UNCHANGED aside
  \/ \E c \in tokens, id \in 1..MaxEventId, b \in TextUpdateBodies :
       UpdateEvent(c, id, b) /\ UNCHANGED aside
  \/ Tick /\ UNCHANGED aside

TextSpec == Init /\ [][TextNext]_vars

\* creation, registration, and update and deletion in both variants
VariantNext ==
  \/ \E b \in SignupBodies : Signup(b) /\ UNCHANGED aside
  \/ \E c \in tokens, b \in RaceBodies : CreateEvent(c, b) /\ UNCHANGED aside
  \/ \E c \in tokens, id \in EventIdParams :
       RegisterForEvent(c, id) /\ UNCHANGED aside
  \/ \E c \in tokens, id \in EventIdParams, b \in AccessUpdateBodies :
       UpdateEvent(c, id, b) /\ UNCHANGED aside
  \/ \E c \in tokens, id \in EventIdParams, b \in AccessUpdateBodies :
       UpdateEventEarlier(c, id, b) /\ UNCHANGED aside
  \/ \E c \in tokens, id \in EventIdParams :
       DeleteEvent(c, id) /\ UNCHANGED aside
  \/ \E c \in tokens, id \in EventIdParams :
       DeleteEventEarlier(c, id) /\ UNCHANGED aside
  \/ Tick /\ UNCHANGED aside

VariantSpec == Init /\ [][VariantNext]_vars

(***************************************************************************)
(* The user objects in the responses of the user routes.                    *)
(***************************************************************************)
\* a user object returned with every column of its row
withPassword(user) == user

\* const { password: _, ...userWithoutPassword } = user
withoutPassword(user) == [f \in DOMAIN user \ {"password"} |-> user[f]]

\* userController.signup with userModel.createUser, with the user object of
\* its response
SignupUser(body) ==
  LET email == body.email
      password == body.password
      id == NextRowId(users)
      newUser == [id |-> id, email |-> email.val,
                  password |-> bcryptHash(password.val, "salt"),
                  name |-> IF Truthy(body.name) THEN body.name.val ELSE << >>]
  IN
  IF ~Truthy(email) \/ ~Truthy(password) THEN
    /\ last' = Response("signup", 400, "VALIDATION_FAILED")
    /\ UNCHANGED <<users, events, regs, tokens, now, pending>>
  ELSE IF ~isValidEmail(email) THEN
    /\ last' = Response("signup", 400, "VALIDATION_FAILED")
    /\ UNCHANGED <<users, events, regs, tokens, now, pending>>
  ELSE IF Len(password.val) < 6 THEN
    /\ last' = Response("signup", 400, "VALIDATION_FAILED")
    /\ UNCHANGED <<users, events, regs, tokens, now, pending>>
  ELSE IF findByEmail(email.val) # {} THEN
    /\ last' = Response("signup", 409, "CONFLICT")
    /\ UNCHANGED <<users, events, regs, tokens, now, pending>>
  ELSE
    /\ id <= MaxUsers
    /\ users' = users \cup {newUser}
    /\ tokens' = tokens \cup {generateJWT(newUser)}
    /\ last' = [Response("signup", 201, "OK")
                  EXCEPT !.body = <<withoutPassword(newUser)>>]
    /\ UNCHANGED <<events, regs, now, pending>>

\* userController.login, with the user object of its response: what
\* userModel.verifyCredentials returns for a password that matches
LoginUser(body) ==
  /\ last' = IF loginResponse(body).kind = "OK"
             THEN [loginResponse(body) EXCEPT !.body =
                     <<withoutPassword(
                         CHOOSE x \in findByEmail(body.email.val) : TRUE)>>]
             ELSE loginResponse(body)
  /\ UNCHANGED <<users, events, regs, tokens, now, pending>>

\* userController.getAllUsers: SELECT * FROM users has no ORDER BY
GetAllUsers ==
  /\ \E q \in Arrangements(users) :
       last' = [Response("users", 200, "OK") EXCEPT
                  !.count = Len(q),
                  !.body = [i \in 1..Len(q) |-> withoutPassword(q[i])]]
  /\ UNCHANGED <<users, events, regs, tokens, now, pending>>

\* userController.getCurrentUser for the caller of a token
GetCurrentUser(c) ==
  /\ IF findUserById(c.id) = {}
     THEN last' = Response("profile", 404, "NOT_FOUND")
     ELSE last' = [Response("profile", 200, "OK") EXCEPT !.body =
                     <<withoutPassword(
                         CHOOSE u \in findUserById(c.id) : TRUE)>>]
  /\ UNCHANGED <<users, events, regs, tokens, now, pending>>

\* the signups of the specification of the user routes
ProfileSignupBodies ==
  {[email |-> Str(<<e, "@", "x", ".", "i", "o">>), password |-> Secret,
    name |-> n] : e \in {"a", "b", "c"}, n \in {Undefined, Str(<<"A", "l">>)}}

\* the user routes: signup, login, the list of users, the caller's profile
ProfileNext ==
  \/ \E b \in ProfileSignupBodies : SignupUser(b) /\ UNCHANGED aside
  \/ \E b \in LoginBodies : LoginUser(b) /\ UNCHANGED aside
  \/ GetAllUsers /\ UNCHANGED aside
  \/ \E c \in tokens : GetCurrentUser(c) /\ UNCHANGED aside

ProfileSpec == Init /\ [][ProfileNext]_vars

(***************************************************************************)
(* Deleting a user.                                                         *)
(***************************************************************************)
\* deleteUserStmt: the users table after the statement
deleteUserRows(us, id) == {u \in us : u.id # id}

\* foreign keys left off: events outlive their owner
cascadeEventsOff(evs, us) == evs

\* ON DELETE CASCADE of events.user_id
cascadeEvents(evs, us) == {e \in evs : \E u \in us : u.id = e.user_id}

\* ON DELETE CASCADE of event_registrations.user_id
cascadeUserRegistrations(rs, us) == {r \in rs : \E u \in us : u.id = r.user_id}

\* userModel.deleteUser: the statement, its cascades, and changes > 0 as the
\* result; the tokens issued to the user stay what they are
DeleteUser(id) ==
  /\ users' = deleteUserRows(users, id)
  /\ events' = cascadeEvents(events, users')
  /\ regs' = cascadeRegistrations(cascadeUserRegistrations(regs, users'),
                                  events')
  /\ last' = Response("deleteUser", 0,
                      IF users' # users THEN "true" ELSE "false")
  /\ UNCHANGED <<tokens, now, pending>>

\* the signups of the specification of deletions: two people, who may sign
\* up again after they were deleted
IntegritySignupBodies ==
  {b \in ListSignupBodies : b.email.val[1] \in {"a", "b"}}

\* nothing on file about a deletion
NoDeletion == scen' = [step |-> 0, a |-> 0, b |-> 0, e |-> 0]
              /\ UNCHANGED <<hashing, sample, issued>>

\* every handler that writes a table, and the deletion of users; scen keeps
\* the user deleted last and the tables before the deletion until the next
\* request
IntegrityNext ==
  \/ \E b \in IntegritySignupBodies : Signup(b) /\ NoDeletion
  \/ \E c \in tokens, b \in RaceBodies : CreateEvent(c, b) /\ NoDeletion
  \/ \E c \in tokens, id \in 1..MaxEventId, b \in RaceUpdateBodies :
       UpdateEvent(c, id, b) /\ NoDeletion
  \/ \E c \in tokens, id \in 1..MaxEventId : DeleteEvent(c, id) /\ NoDeletion
  \/ \E c \in tokens, id \in 1..MaxEventId :
       RegisterForEvent(c, id) /\ NoDeletion
  \/ \E c \in tokens, id \in 1..MaxEventId :
       UnregisterFromEvent(c, id) /\ NoDeletion
  \/ \E id \in 1..MaxUsers :
       /\ DeleteUser(id)
       /\ scen' = [step |-> 0, a |-> id, b |-> 0, e |-> 0,
                   users |-> users, events |-> events, regs |-> regs]
       /\ UNCHANGED <<hashing, sample, issued>>

IntegritySpec == Init /\ [][IntegrityNext]_vars

(***************************************************************************)
(* Tokens and the middleware of the event routes.                           *)
(***************************************************************************)
\* expiresIn: '1h', in ticks of the clock
OneHour == 1

JWT_SECRET == "your_jwt_secret_key"

\* the signature of a token's content under a key
jwtSignature(key, content) ==
  <<key, content.id, content.email, content.iat, content.exp>>

\* jwt.sign(payload, key, { expiresIn: '1h' }) at instant t
jwtSign(payload, key, t) ==
  LET content == [id |-> payload.id, email |-> payload.email,
                  iat |-> t, exp |-> t + OneHour]
  IN [id |-> content.id, email |-> content.email, iat |-> content.iat,
      exp |-> content.exp, sig |-> jwtSignature(key, content)]

\* generateJWT at instant t: the signed token of a user
signedJWT(user, t) == jwtSign(generateJWT(user), JWT_SECRET, t)

\* a verification that never looks at the clock
verifyJWTIgnoringExpiry(token, t) ==
  token.sig = jwtSignature(JWT_SECRET, token)

\* verifyJWT at instant t: whether jwt.verify returns the payload rather
\* than throws; a token is expired from the instant exp on
verifyJWT(token, t) ==
  /\ token.sig = jwtSignature(JWT_SECRET, token)
  /\ t < token.exp

\* the Authorization header of a request: absent, or the pieces that
\* split(' ') makes of it after the first
NoHeader == [present |-> FALSE, rest |-> << >>]
SchemeOnly == [present |-> TRUE, rest |-> << >>]
Bearer(token) == [present |-> TRUE, rest |-> <<token>>]

\* authenticateToken at instant t: the response it sends, or next() with
\* the identity it puts in req.user
authenticateToken(header, t) ==
  LET token == IF header.present /\ Len(header.rest) >= 1
               THEN <<header.rest[1]>> ELSE << >>
  IN
  IF token = << >> THEN
    [status |-> 401, kind |-> "TOKEN_REQUIRED", user |-> [id |-> 0, email |-> << >>]]
  ELSE IF ~verifyJWT(token[1], t) THEN
    [status |-> 403, kind |-> "TOKEN_INVALID", user |-> [id |-> 0, email |-> << >>]]
  ELSE
    [status |-> 0, kind |-> "NEXT",
     user |-> [id |-> token[1].id, email |-> token[1].email]]

\* the handler the router gives a request to
Handle(c, r) ==
  CASE r.route = "create" -> CreateEvent(c, r.body)
    [] r.route = "update" -> UpdateEvent(c, r.id, r.body)
    [] r.route = "delete" -> DeleteEvent(c, r.id)
    [] r.route = "register" -> RegisterForEvent(c, r.id)
    [] r.route = "unregister" -> UnregisterFromEvent(c, r.id)
    [] r.route = "registrations" -> GetEventRegistrations(c, r.id)
    [] r.route = "my-registrations" -> GetUserRegistrations(c)

\* a request to an event route: router.use(authenticateToken), then the
\* handler of the route
Route(header, r) ==
  LET auth == authenticateToken(header, now) IN
  IF auth.kind = "NEXT" THEN Handle(auth.user, r)
  ELSE Respond(Response("authenticateToken", auth.status, auth.kind))

\* signup, with the token of its response
RouteSignup(body) ==
  /\ SignupUser(body)
  /\ issued' = IF last'.kind = "OK"
               THEN issued \cup {signedJWT(last'.body[1], now)} ELSE issued
  /\ UNCHANGED <<scen, hashing, sample>>

\* what a client may put in a header: a token it was given, the same token
\* signed with a key of its own, or with another id or a later expiry under
\* the signature it was given
Tampered(token) ==
  {jwtSign(token, "guess", token.iat),
   [token EXCEPT !.id = (token.id % MaxUsers) + 1],
   [token EXCEPT !.exp = token.exp + OneHour]}

RouteHeaders ==
  {NoHeader, SchemeOnly}
  \cup {Bearer(t) : t \in issued}
  \cup {Bearer(f) : f \in UNION {Tampered(t) : t \in issued}}

\* a request without a body
NoBody == Body(Undefined, Undefined, NoText)

Request(route, id, body) == [route |-> route, id |-> id, body |-> body]

\* the requests of the specification of the event routes
RouteRequests ==
  {Request("create", 0, b) : b \in ListBodies}
  \cup {Request("update", id, b) : id \in 1..MaxEventId, b \in RaceUpdateBodies}
  \cup {Request(route, id, NoBody) :
          route \in {"delete", "register", "unregister", "registrations"},
          id \in 1..MaxEventId}
  \cup {Request("my-registrations", 0, NoBody)}

\* the event routes behind the middleware, with signups and a clock
RouteNext ==
  \/ \E b \in IntegritySignupBodies : RouteSignup(b)
  \/ \E h \in RouteHeaders, b \in ListBodies :
       Route(h, Request("create", 0, b)) /\ UNCHANGED aside
  \/ \E h \in RouteHeaders, id \in 1..MaxEventId, b \in RaceUpdateBodies :
       Route(h, Request("update", id, b)) /\ UNCHANGED aside
  \/ \E h \in RouteHeaders, id \in 1..MaxEventId :
       Route(h, Request("delete", id, NoBody)) /\ UNCHANGED aside
  \/ \E h \in RouteHeaders, id \in 1..MaxEventId :
       Route(h, Request("register", id, NoBody)) /\ UNCHANGED aside
  \/ \E h \in RouteHeaders, id \in 1..MaxEventId :
       Route(h, Request("unregister", id, NoBody)) /\ UNCHANGED aside
  \/ \E h \in RouteHeaders, id \in 1..MaxEventId :
       Route(h, Request("registrations", id, NoBody)) /\ UNCHANGED aside
  \/ \E h \in RouteHeaders :
       Route(h, Request("my-registrations", 0, NoBody)) /\ UNCHANGED aside
  \/ Tick /\ UNCHANGED aside

RouteSpec == Init /\ [][RouteNext]_vars

(***************************************************************************)
(* Properties.                                                              *)
(***************************************************************************)
registrationsOf(rs, eventId, userId) ==
  {r \in rs : r.event_id = eventId /\ r.user_id = userId}

isOwner(eventId, userId) ==
  \E e \in events : e.id = eventId /\ e.user_id = userId

\* C1: of two register calls for the same event by the same non-owner user,
\* with the event and the user still present, the call whose insert runs
\* first succeeds and the other returns ALREADY_REGISTERED, whether it meets
\* the row in its pre-check or in its insert; the pair ends with one row.
C1_Step ==
  last'.op = "register" =>
    /\ \A p \in pending :
         (EventKeyExists(p.event) /\ UserKeyExists(p.caller.id)) =>
           \/ /\ last'.kind = IF findRegistration(p.event, p.caller.id) = {}
                              THEN "OK" ELSE "ALREADY_REGISTERED"
              /\ Cardinality(registrationsOf(regs', p.event, p.caller.id)) = 1
           \/ ~RegisterInsert(p)
    /\ \A c \in tokens, id \in 1..MaxEventId :
         (findRegistration(id, c.id) # {} /\ ~isOwner(id, c.id)) =>
           \/ last'.kind = "ALREADY_REGISTERED" /\ regs' = regs
           \/ ~(RegisterForEvent(c, id) \/ RegisterCheck(c, id))

C1_DoubleRegister == [][C1_Step]_vars

\* a call that passed its pre-check met the other call's row in its insert
C1_Witness ==
  /\ last.op = "register"
  /\ last.kind = "ALREADY_REGISTERED"
  /\ last.code = "SQLITE_CONSTRAINT_UNIQUE"
  /\ regs # {}

\* C2: the registrations table never holds two rows for one (event, user).
C2_UniquePair ==
  \A r1 \in regs, r2 \in regs :
    (r1.event_id = r2.event_id /\ r1.user_id = r2.user_id) => r1 = r2

\* two users are registered, and a call found its pair already taken
C2_Witness ==
  /\ Cardinality(regs) = 2
  /\ last.op = "register"
  /\ last.kind = "ALREADY_REGISTERED"

\* the instant of the stored date of event eventId
dateOf(eventId) ==
  DateParse((CHOOSE e \in events : e.id = eventId).date)

\* (In the step formulas an implication "call => outcome" is written
\* "outcome \/ ~call".)

\* C3: a register call by the owner of the event returns SELF_REGISTRATION
\* and inserts nothing, and no registration row ever names the owner of its
\* event as its user.
C3_NoOwnerRow ==
  \A r \in regs : ~isOwner(r.event_id, r.user_id)

C3_Step ==
  last'.op = "register" =>
    \A c \in tokens, id \in 1..MaxEventId :
      isOwner(id, c.id) =>
        \/ last'.kind = "SELF_REGISTRATION" /\ regs' = regs
        \/ ~RegisterForEvent(c, id)

C3_NoSelfRegistration == [](C3_NoOwnerRow) /\ [][C3_Step]_vars

\* an owner was turned away while another user holds a registration
C3_Witness ==
  /\ last.op = "register"
  /\ last.kind = "SELF_REGISTRATION"
  /\ regs # {}

\* C4 (as stated): every update or delete request for an absent event gets
\* EVENT_NOT_FOUND, and for an event of another user UNAUTHORIZED.
lookupOutcome(c, id) ==
  /\ findById(id) = {} => (last'.kind = "EVENT_NOT_FOUND"
                             /\ last'.status = 404)
  /\ (findById(id) # {} /\ ~isOwner(id, c.id)) =>
       (last'.kind = "UNAUTHORIZED" /\ last'.status = 403)

C4_OriginalStep ==
  \A c \in tokens, id \in 1..MaxEventId :
    /\ last'.op = "update" =>
         \A b \in AccessUpdateBodies :
           lookupOutcome(c, id) \/ ~UpdateEvent(c, id, b)
    /\ last'.op = "delete" =>
         (lookupOutcome(c, id) \/ ~DeleteEvent(c, id))

C4_Step ==
  \A c \in tokens, id \in 1..MaxEventId :
    /\ last'.op = "update" =>
         \A b \in AccessUpdateBodies :
           \/ IF UpdateErrors(b, now) # << >>
              THEN last'.kind = "VALIDATION_FAILED" /\ last'.status = 400
              ELSE lookupOutcome(c, id)
           \/ ~UpdateEvent(c, id, b)
    /\ last'.op = "delete" =>
         (lookupOutcome(c, id) \/ ~DeleteEvent(c, id))

hasTwin(c, b) ==
  \E e \in events :
    /\ e.user_id = c.id
    /\ toLowerCase(e.title.val) = toLowerCase(sanitizeText(b.title))
    /\ DateParse(e.date) = DateParse(b.date)

\* C5 (as stated): a create request that repeats the owner, title (case
\* aside) and instant of an existing event gets CONFLICT (409), and the
\* events table is left as it was.
C5_OriginalStep ==
  last'.op = "create" =>
    \A c \in tokens, b \in CrudBodies :
      hasTwin(c, b) =>
        \/ /\ last'.kind = "CONFLICT"
           /\ last'.status = 409
           /\ events' = events
        \/ ~CreateEvent(c, b)

C5_Original == [][C5_OriginalStep]_vars

\* C5 (amended): such a request gets CONFLICT (409) when it passes the
\* validation, and VALIDATION_FAILED (400) when it does not (the instant is
\* no longer in the future, or more than a year ahead); either way the
\* events table is left as it was.
C5_Step ==
  last'.op = "create" =>
    \A c \in tokens, b \in CrudBodies :
      hasTwin(c, b) =>
        \/ /\ IF validateEventData(b, now) = << >>
              THEN last'.kind = "CONFLICT" /\ last'.status = 409
              ELSE last'.kind = "VALIDATION_FAILED" /\ last'.status = 400
           /\ events' = events
        \/ ~CreateEvent(c, b)

C5_DuplicateConflict == [][C5_Step]_vars

\* a create was refused as a duplicate of an event that is still there
C5_Witness ==
  /\ last.op = "create"
  /\ last.kind = "CONFLICT"
  /\ events # {}

\* C6 (as stated): registration succeeds only for an event whose date is
\* after now, and every register call for an event whose date is now or
\* earlier gets EVENT_PAST and inserts nothing.
C6_OriginalStep ==
  last'.op = "register" =>
    \A c \in tokens, id \in 1..MaxEventId :
      \/ /\ last'.kind = "OK" => (findById(id) # {} /\ dateOf(id) > now)
         /\ (findById(id) # {} /\ dateOf(id) <= now) =>
              (last'.kind = "EVENT_PAST" /\ regs' = regs)
      \/ ~RegisterForEvent(c, id)

C6_Original == [][C6_OriginalStep]_vars

\* C6 (amended): registration succeeds only for an event whose date is after
\* now; a register call for an event whose date is now or earlier inserts
\* nothing, and gets EVENT_PAST when the caller is neither the owner nor
\* already registered (these get SELF_REGISTRATION and ALREADY_REGISTERED).
C6_Step ==
  last'.op = "register" =>
    \A c \in tokens, id \in 1..MaxEventId :
      \/ /\ last'.kind = "OK" => (findById(id) # {} /\ dateOf(id) > now)
         /\ (findById(id) # {} /\ dateOf(id) <= now) =>
              /\ regs' = regs
              /\ last'.kind =
                   IF isOwner(id, c.id) THEN "SELF_REGISTRATION"
                   ELSE IF findRegistration(id, c.id) # {}
                   THEN "ALREADY_REGISTERED"
                   ELSE "EVENT_PAST"
      \/ ~RegisterForEvent(c, id)

C6_OnlyFutureEvents == [][C6_Step]_vars

\* a call was refused because the event's date is not after now
C6_Witness ==
  /\ last.op = "register"
  /\ last.kind = "EVENT_PAST"
  /\ \E e \in events : DateParse(e.date) <= now

\* C7: a successful delete of event E removes E and every registration row
\* of E, and leaves the registration rows of other events as they were.
C7_Step ==
  (last'.op = "delete" /\ last'.kind = "OK") =>
    \A c \in tokens, id \in 1..MaxEventId :
      \/ /\ isOwner(id, c.id)
         /\ \A e \in events' : e.id # id
         /\ \A r \in regs' : r.event_id # id
         /\ {r \in regs' : r.event_id # id} = {r \in regs : r.event_id # id}
      \/ ~DeleteEvent(c, id)

C7_DeleteCascades == [][C7_Step]_vars

\* an event was deleted and the registration of another event is still there
C7_Witness ==
  /\ last.op = "delete"
  /\ last.kind = "OK"
  /\ regs # {}
  /\ Cardinality(regs) < MaxId(regs)

\* C8: unregister returns EVENT_NOT_FOUND for an absent event, else
\* NOT_REGISTERED when the caller has no row for the event, else deletes
\* that one row and succeeds; both failures leave the table as it was.
C8_Step ==
  last'.op = "unregister" =>
    \A c \in tokens, id \in 1..MaxEventId :
      \/ IF findById(id) = {}
         THEN last'.kind = "EVENT_NOT_FOUND" /\ regs' = regs
         ELSE IF findRegistration(id, c.id) = {}
         THEN last'.kind = "NOT_REGISTERED" /\ regs' = regs
         ELSE /\ last'.kind = "OK"
              /\ regs' = regs \ registrationsOf(regs, id, c.id)
              /\ Cardinality(regs') = Cardinality(regs) - 1
      \/ ~UnregisterFromEvent(c, id)

C8_Unregister == [][C8_Step]_vars

\* a user left one event and is still registered for another
C8_Witness ==
  /\ last.op = "unregister"
  /\ last.kind = "OK"
  /\ regs # {}

\* C9: the walk-through, as one run: a creates event e dated one week ahead
\* (created); b registers (registered, e counts 1 registration); b registers
\* again (ALREADY_REGISTERED, still 1); a registers (SELF_REGISTRATION,
\* still 1); a deletes e (deleted), and then no row of b, nor of anyone,
\* names e.
C9_Scenario ==
  /\ scen.step = 1 =>
       /\ last = Response("create", 201, "OK")
       /\ \E ev \in findById(scen.e) :
            ev.user_id = scen.a /\ DateParse(ev.date) = now + OneWeek
  /\ scen.step = 2 =>
       /\ last = Response("register", 201, "OK")
       /\ getRegistrationCount(scen.e) = 1
       /\ findRegistration(scen.e, scen.b) # {}
  /\ scen.step = 3 =>
       /\ last = Response("register", 409, "ALREADY_REGISTERED")
       /\ getRegistrationCount(scen.e) = 1
  /\ scen.step = 4 =>
       /\ last = Response("register", 400, "SELF_REGISTRATION")
       /\ getRegistrationCount(scen.e) = 1
       /\ findRegistration(scen.e, scen.b) # {}
  /\ scen.step = 5 =>
       /\ last = Response("delete", 200, "OK")
       /\ findById(scen.e) = {}
       /\ findRegistration(scen.e, scen.b) = {}
       /\ getRegistrationCount(scen.e) = 0

\* the walk-through ran to its end while another registration is on file
C9_Witness ==
  /\ scen.step = 5
  /\ last.op = "delete"
  /\ regs # {}

\* C10: a create, update, delete, register or unregister call that answers
\* with a failure leaves the tables users, events and registrations as they
\* were before the call.
C10_Step ==
  (last'.op \in {"create", "update", "delete", "register", "unregister"}
     /\ last'.kind # "OK") => UNCHANGED tables

C10_NoPartialEffect == [][C10_Step]_vars

\* a create request was refused as a duplicate while rows are on file
C10_Witness ==
  /\ last.op = "create"
  /\ last.kind = "CONFLICT"
  /\ regs # {}

\* C11: listing the registrations of event E answers 404 when E does not
\* exist and 403, with no registrant and no count, when the caller is not
\* E's owner; for the owner the count equals the number of registrants
\* listed, which are the registration rows of E, each once with its user's
\* identity, in ascending order of registration time.
C11_Step ==
  last'.op = "registrations" =>
    \A c \in tokens, id \in 1..MaxEventId :
      \/ IF findById(id) = {}
         THEN last'.status = 404 /\ last'.body = << >> /\ last'.count = 0
         ELSE IF ~isOwner(id, c.id)
         THEN last'.status = 403 /\ last'.body = << >> /\ last'.count = 0
         ELSE /\ last'.status = 200
              /\ last'.count = Len(last'.body)
              /\ Len(last'.body) = Cardinality({r \in regs : r.event_id = id})
              /\ \A r \in regs :
                   r.event_id = id =>
                     \E i \in 1..Len(last'.body) :
                       /\ last'.body[i].id = r.id
                       /\ last'.body[i].user.id = r.user_id
                       /\ last'.body[i].registered_at = r.registered_at
                       /\ \E u \in users :
                            /\ u.id = r.user_id
                            /\ last'.body[i].user.email = u.email
                            /\ last'.body[i].user.name = u.name
              /\ \A i, j \in 1..Len(last'.body) :
                   i < j => last'.body[i].registered_at
                              <= last'.body[j].registered_at
      \/ ~GetEventRegistrations(c, id)

C11_OwnerListsRegistrations == [][C11_Step]_vars

\* an owner was shown two registrants who registered at different times
C11_Witness ==
  /\ last.op = "registrations"
  /\ last.status = 200
  /\ Len(last.body) = 2
  /\ last.body[1].registered_at < last.body[2].registered_at

\* C12: listing my registrations returns, for the caller U, the events for
\* which a registration row of U exists, each once and no other, each with
\* the identity of its owner, in ascending order of event date.
C12_Step ==
  last'.op = "my-registrations" =>
    \A c \in tokens :
      \/ /\ last'.status = 200
         /\ Len(last'.body) =
              Cardinality({r \in regs : r.user_id = c.id})
         /\ \A r \in regs :
              r.user_id = c.id =>
                \E i \in 1..Len(last'.body), e \in events, u \in users :
                  /\ e.id = r.event_id
                  /\ u.id = e.user_id
                  /\ last'.body[i].event.id = e.id
                  /\ last'.body[i].event.title = e.title
                  /\ last'.body[i].event.date = e.date
                  /\ last'.body[i].event.owner.email = u.email
                  /\ last'.body[i].event.owner.name = u.name
         /\ \A i, j \in 1..Len(last'.body) :
              i < j => DateParse(last'.body[i].event.date)
                         <= DateParse(last'.body[j].event.date)
      \/ ~GetUserRegistrations(c)

C12_MyRegistrations == [][C12_Step]_vars

\* the value a request asks for in a text column: the sanitized text, or
\* no text
askedText(v) == IF Truthy(v) THEN Str(sanitizeText(v)) ELSE Null

\* a text column holds what was asked (an empty text and no text are alike)
holdsText(stored, asked) ==
  \/ stored = asked
  \/ /\ stored \in {Null, Str(<< >>)}
     /\ asked \in {Null, Str(<< >>)}

\* C13: after a successful update by the owner, every field the request
\* holds has the request's sanitized value and every field the request
\* lacks has the value it had before.
C13_Step ==
  (last'.op = "update" /\ last'.kind = "OK") =>
    \A c \in tokens, id \in 1..MaxEventId, b \in FieldUpdateBodies :
      \/ \E old \in findById(id), new \in events' :
           /\ new.id = id
           /\ new.title = IF b.title.type = "undefined" THEN old.title
                          ELSE Str(sanitizeText(b.title))
           /\ IF b.description.type = "undefined"
              THEN new.description = old.description
              ELSE holdsText(new.description, askedText(b.description))
           /\ IF b.address.type = "undefined"
              THEN new.address = old.address
              ELSE holdsText(new.address, askedText(b.address))
           /\ IF b.date.type = "undefined"
              THEN new.date = old.date
              ELSE /\ isValidDate(b.date)
                   /\ new.date = toISOString(DateParse(b.date))
      \/ ~UpdateEvent(c, id, b)

C13_UpdateAppliesFields == [][C13_Step]_vars

\* the fields of an update other than its date pass their checks
restValid(b) ==
  /\ b.title.type = "undefined"
     \/ /\ b.title.type = "string"
        /\ Len(sanitizeText(b.title)) \in TitleMin..TitleMax
  /\ \A f \in {b.description, b.address} :
       f.type \in {"undefined", "null", "string"}

\* C17: an update of a numeric event id that supplies a date is refused with VALIDATION_FAILED,
\* changing nothing, when the date is not a valid date or is at or before
\* the current time; otherwise the date is no obstacle, however far ahead:
\* the owner's update with no other field at fault succeeds and stores it.
C17_Step ==
  last'.op = "update" =>
    \A c \in tokens, id \in 1..MaxEventId, b \in FieldUpdateBodies :
      \/ b.date.type = "undefined"
      \/ IF ~isValidDate(b.date) \/ DateParse(b.date) <= now
         THEN /\ last'.kind = "VALIDATION_FAILED"
              /\ last'.status = 400
              /\ UNCHANGED tables
         ELSE (isOwner(id, c.id) /\ restValid(b)) =>
                /\ last'.kind = "OK"
                /\ \E e \in events' :
                     e.id = id /\ DateParse(e.date) = DateParse(b.date)
      \/ ~UpdateEvent(c, id, b)

C17_UpdateDateOnlyFuture == [][C17_Step]_vars

\* an update has put an event more than one year ahead
C17_Witness ==
  /\ last.op = "update"
  /\ last.kind = "OK"
  /\ \E e \in events : DateParse(e.date) > now + OneYear

\* C14: a new event belongs to the caller that created it; no step changes
\* the owner of an event that stays in the table, and its identifier stays
\* attached to it; an update leaves every row other than the targeted event
\* as it was: the other events, the users and all registrations.
C14_Step ==
  /\ \A e \in events, f \in events' : f.id = e.id => f.user_id = e.user_id
  /\ events' # events =>
       /\ Cardinality({f.id : f \in events'}) = Cardinality(events')
       /\ last'.op = "create" =>
            \A c \in tokens, b \in CreateBodies :
              \/ \A f \in events' \ events : f.user_id = c.id
              \/ ~CreateEvent(c, b)
  /\ last'.op = "update" =>
       /\ users' = users
       /\ regs' = regs
       /\ \A c \in tokens, id \in EventIdParams, b \in UpdateBodies :
            \/ /\ \A e \in events : e.id # id => e \in events'
               /\ \A f \in events' : f.id # id => f \in events
            \/ ~UpdateEvent(c, id, b)

C14_OwnerFixed == [][C14_Step]_vars

\* an update has changed one of two events of the same owner, while
\* somebody is registered
C14_Witness ==
  /\ last.op = "update"
  /\ last.kind = "OK"
  /\ regs # {}
  /\ \E e \in events, f \in events :
       e.id # f.id /\ e.user_id = f.user_id /\ e.date # f.date

\* the date of a create request is acceptable at time t
dateAcceptable(date, t) ==
  /\ isValidDate(date)
  /\ DateParse(date) > t
  /\ DateParse(date) <= t + OneYear
  /\ getFullYear(DateParse(date)) \in YearMin..YearMax

\* C16: a create request whose title passes is refused for its date
\* (VALIDATION_FAILED) exactly when the date is not a valid date, is not
\* strictly later than the current time, is more than one year after it, or
\* lies outside the years 1900 to 2100; every row a create inserts has
\* now < date <= now + one year at the time of the insert.
C16_Step ==
  last'.op = "create" =>
    /\ \A f \in events' \ events :
         /\ DateParse(f.date) > now
         /\ DateParse(f.date) <= now + OneYear
    /\ \A c \in tokens, b \in CreateBodies :
         \/ TitleErrors(b.title) = << >> =>
              (last'.kind = "VALIDATION_FAILED" <=> ~dateAcceptable(b.date, now))
         \/ ~CreateEvent(c, b)

C16_CreateDateWindow == [][C16_Step]_vars

\* a create has just inserted an event dated exactly one year ahead
C16_Witness ==
  /\ last.op = "create"
  /\ last.kind = "OK"
  /\ \E e \in events :
       e.id = Cardinality(events) /\ DateParse(e.date) = now + OneYear

\* the title is missing, is not a string, or has a sanitized length
\* outside the permitted range
titleRefused(title) ==
  \/ title.type # "string"
  \/ title.val = << >>
  \/ Len(sanitizeText(title)) < TitleMin
  \/ Len(sanitizeText(title)) > TitleMax

\* C15: a create request whose title is missing, is not a string or has a
\* sanitized length outside 3..100 is answered 400 VALIDATION_FAILED and
\* inserts nothing; a title whose sanitized length is within 3..100 is no
\* ground for refusal, so with an acceptable date the request is not refused
\* by the validation; a title of two characters after trimming is refused
\* with the message that gives the minimum of 3.
C15_Step ==
  (last'.op = "create" /\ now' = now) =>
    \A c \in tokens, b \in TitleBodies :
      \/ b.title # sample'.given
      \/ /\ titleRefused(b.title) =>
              /\ last'.kind = "VALIDATION_FAILED"
              /\ last'.status = 400
              /\ UNCHANGED tables
         /\ (~titleRefused(b.title) /\ dateAcceptable(b.date, now)) =>
              last'.kind # "VALIDATION_FAILED"
         /\ (b.title.type = "string" /\ Len(Trim(b.title.val)) = 2) =>
              \E i \in DOMAIN validateEventData(b, now) :
                validateEventData(b, now)[i]
                  = "Title must be at least 3 characters long"
      \/ ~CreateEvent(c, b)

C15_TitleValidation == [][C15_Step]_vars

\* a create whose title has two characters after trimming has been refused
\* while an event is stored
C15_Witness ==
  /\ last.op = "create"
  /\ last.kind = "VALIDATION_FAILED"
  /\ sample.given.type = "string"
  /\ Len(sample.given.val) > 2
  /\ Len(Trim(sample.given.val)) = 2
  /\ events # {}

\* the characters of s that are not whitespace
lettersOf(s) ==
  LET NonBlank(i) == ~IsSpace(s[i])
      at == SelectSeq(Indices(s), NonBlank)
  IN [k \in 1..Len(at) |-> s[at[k]]]

\* the number of letters before each whitespace run of s that lies between
\* two letters
gapsOf(s) ==
  {Len(lettersOf(SubSeq(s, 1, i))) :
     i \in {j \in 1..Len(s) :
              /\ IsSpace(s[j])
              /\ \E k \in 1..(j - 1) : ~IsSpace(s[k])
              /\ \E k \in (j + 1)..Len(s) : ~IsSpace(s[k])}}

\* C18: sanitizing a sanitized text gives the same text; the sanitized text
\* of a string has its letters in order, no whitespace at either end, and
\* exactly one space where the string has a whitespace run between two
\* letters; a value that is not a string sanitizes to the empty text.
C18_SanitizeIdempotent ==
  /\ sample.stage = 2 => sample.twice = sample.once
  /\ (sample.stage >= 1 /\ sample.given.type # "string") => sample.once = << >>
  /\ (sample.stage >= 1 /\ sample.given.type = "string") =>
       LET s == sample.given.val
           r == sample.once
       IN /\ lettersOf(r) = lettersOf(s)
          /\ \A i \in 1..Len(r) : IsSpace(r[i]) =>
               /\ r[i] = " "
               /\ 1 < i /\ i < Len(r)
               /\ ~IsSpace(r[i + 1])
          /\ gapsOf(r) = gapsOf(s)

\* a text with a run of three blanks between two letters has been sanitized
\* twice
C18_Witness ==
  /\ sample.stage = 2
  /\ sample.given.type = "string"
  /\ Len(sample.given.val) = 5
  /\ \A i \in 2..4 : IsSpace(sample.given.val[i])
  /\ Len(sample.once) = 3

\* C19: no two user rows have the same email, whatever the interleaving of
\* signups; when a signup whose password was hashed reaches its insert after
\* another signup with the same email has inserted, it adds no row and is
\* answered 409 CONFLICT, and when no row has its email it adds exactly one
\* row.
C19_Step ==
  /\ \A u, v \in users' : u.email = v.email => u = v
  /\ (last'.op = "signup" /\ hashing' # hashing) =>
       \A h \in hashing :
         \/ h.body.password.type # "string"
         \/ IF \E u \in users : u.email = h.body.email.val
            THEN /\ users' = users
                 /\ last'.status = 409
                 /\ last'.kind = "CONFLICT"
            ELSE /\ last'.status = 201
                 /\ \E u \in users' :
                      /\ u.email = h.body.email.val
                      /\ users' = users \cup {u}
                      /\ u \notin users
         \/ ~SignupInsert(h)

C19_EmailsUnique == [][C19_Step]_vars

\* two signups with the same email were waiting for their hash together;
\* both have inserted: one row, and the second was answered 409 from the
\* catch
C19_Witness ==
  /\ hashing = {}
  /\ last.op = "signup"
  /\ last.status = 409
  /\ last.code = "SQLITE_CONSTRAINT_UNIQUE"
  /\ Cardinality(users) = 1

\* the request names an email that no user row has
unknownEmail(b) == Truthy(b.email) /\ findByEmail(b.email.val) = {}

\* the request names the email of a user and a password that is not that
\* user's
wrongPassword(b) ==
  /\ Truthy(b.email)
  /\ Truthy(b.password)
  /\ \E u \in findByEmail(b.email.val) :
       ~(b.password.type = "string"
         /\ u.password = bcryptHash(b.password.val, "salt"))

\* C20: a login with an email that no user has and a login with the email
\* of a user and a wrong password get the same response: status 401 and the
\* message 'Invalid email or password'.
C20_Step ==
  last'.op = "login" =>
    \A b \in LoginBodies :
      \/ ((unknownEmail(b) /\ Truthy(b.password)) \/ wrongPassword(b)) =>
           /\ last'.status = 401
           /\ last'.body = <<"Invalid email or password">>
      \/ ~Login(b)

C20_LoginIndistinct == [][C20_Step]_vars

\* C23: a register call reports the first check that fails, in the order
\* event exists, caller is not the owner, caller is not yet registered,
\* event is in the future: the owner gets SELF_REGISTRATION and a registered
\* user gets ALREADY_REGISTERED also when the event's date has passed, and
\* EVENT_PAST is left for callers that pass the first three checks.
C23_Step ==
  last'.op = "register" =>
    \A c \in tokens, id \in 1..MaxEventId :
      \/ last'.kind =
           IF findById(id) = {} THEN "EVENT_NOT_FOUND"
           ELSE IF isOwner(id, c.id) THEN "SELF_REGISTRATION"
           ELSE IF findRegistration(id, c.id) # {} THEN "ALREADY_REGISTERED"
           ELSE IF \E e \in findById(id) : DateParse(e.date) <= now
           THEN "EVENT_PAST"
           ELSE "OK"
      \/ ~RegisterForEvent(c, id)

C23_RegisterCheckOrder == [][C23_Step]_vars

\* a registered user asked again after the date of every event had passed
C23_Witness ==
  /\ last.op = "register"
  /\ last.kind = "ALREADY_REGISTERED"
  /\ \A e \in events : DateParse(e.date) <= now

\* C24: a pair of an event and a user has no row or one row; a successful
\* register adds the row of the pair to the rows on file, the unregister
\* that follows takes it away and leaves exactly the rows that were on file
\* before the register, and a further register of the pair succeeds when
\* the event is still in the future.
C24_Cycle ==
  /\ \A e \in 1..MaxEventId, u \in 1..MaxUsers :
       Cardinality(findRegistration(e, u)) <= 1
  /\ scen.step = 1 =>
       /\ last = Response("register", 201, "OK")
       /\ registrationsOf(scen.before, scen.e, scen.b) = {}
       /\ findRegistration(scen.e, scen.b) # {}
       /\ regs = scen.before \cup findRegistration(scen.e, scen.b)
  /\ scen.step = 2 =>
       /\ last = Response("unregister", 200, "OK")
       /\ findRegistration(scen.e, scen.b) = {}
       /\ regs = scen.before
  /\ (scen.step = 3 /\ \E ev \in findById(scen.e) : DateParse(ev.date) > now) =>
       /\ last = Response("register", 201, "OK")
       /\ findRegistration(scen.e, scen.b) # {}
       /\ regs = scen.before \cup findRegistration(scen.e, scen.b)

\* a user has registered, unregistered and registered again for an event
\* that is still to come, while another user is registered for it
C24_Witness ==
  /\ scen.step = 3
  /\ last = Response("register", 201, "OK")
  /\ getRegistrationCount(scen.e) = 2
  /\ \E ev \in findById(scen.e) : DateParse(ev.date) > now

\* a field of the update request fails its check at time t
fieldFails(b, t) ==
  \/ ~restValid(b)
  \/ /\ b.date.type # "undefined"
     /\ ~isValidDate(b.date) \/ DateParse(b.date) <= t

\* C27: an update request is answered by the first of: invalid id (400),
\* a field that fails validation (400), event not found (404), caller not
\* the owner (403), success (200); so a request with an invalid field gets
\* VALIDATION_FAILED whether or not the event exists or is the caller's.
C27_Step ==
  last'.op = "update" =>
    \A c \in tokens, id \in EventIdParams, b \in AccessUpdateBodies :
      \/ <<last'.kind, last'.status>> =
           IF id = NaN THEN <<"INVALID_ID", 400>>
           ELSE IF fieldFails(b, now) THEN <<"VALIDATION_FAILED", 400>>
           ELSE IF findById(id) = {} THEN <<"EVENT_NOT_FOUND", 404>>
           ELSE IF ~isOwner(id, c.id) THEN <<"UNAUTHORIZED", 403>>
           ELSE <<"OK", 200>>
      \/ ~UpdateEvent(c, id, b)

C27_UpdateOrder == [][C27_Step]_vars

\* an update with an invalid field was refused for the field while one event
\* is on file and two users hold tokens
C27_Witness ==
  /\ last.op = "update"
  /\ last.kind = "VALIDATION_FAILED"
  /\ Cardinality(events) = 1
  /\ Cardinality(tokens) = 2

\* C26: no user owns two distinct events with the same title, case aside,
\* and the same instant.
C26_NoTwinEvents ==
  \A e \in events, f \in events :
    (/\ e.user_id = f.user_id
     /\ toLowerCase(e.title.val) = toLowerCase(f.title.val)
     /\ DateParse(e.date) = DateParse(f.date)) => e.id = f.id

\* the stored text is sanitized and of length lo..hi
storedText(v, lo, hi) ==
  /\ v.type = "string"
  /\ sanitizeText(v) = v.val
  /\ Len(v.val) >= lo
  /\ Len(v.val) <= hi

\* C30: every stored event has a title that is its own sanitization, of
\* length 3..100, a description that is null or its own sanitization of
\* length at most 500, and an address that is null or its own sanitization
\* of length at most 200.
C30_StoredTexts ==
  \A e \in events :
    /\ storedText(e.title, TitleMin, TitleMax)
    /\ e.description = Null \/ storedText(e.description, 0, DescriptionMax)
    /\ e.address = Null \/ storedText(e.address, 0, AddressMax)

\* an update has been applied while an event holds a title, a description
\* and an address of the greatest length
C30_Witness ==
  /\ last.op = "update"
  /\ last.kind = "OK"
  /\ \E e \in events :
       /\ Len(e.title.val) = TitleMax
       /\ e.description.type = "string"
       /\ Len(e.description.val) = DescriptionMax
       /\ e.address.type = "string"
       /\ Len(e.address.val) = AddressMax

\* the responses of the two variants agree, or the caller is not the owner
\* of an existing event and gets not-found from the earlier variant and
\* UNAUTHORIZED from the later one
sameOrNonOwner(c, id, earlier, later) ==
  \/ earlier.kind = later.kind /\ earlier.status = later.status
  \/ /\ findById(id) # {}
     /\ ~isOwner(id, c.id)
     /\ earlier.kind = "EVENT_NOT_FOUND" /\ earlier.status = 404
     /\ later.kind = "UNAUTHORIZED" /\ later.status = 403

\* C28: for every caller, event id and request the earlier and the later
\* variant of update, and of delete, leave the same tables and succeed in
\* the same cases; their responses differ only for a caller who is not the
\* owner of an existing event.
C28_Step ==
  /\ last'.op = "update" =>
       \A c \in tokens, id \in EventIdParams, b \in AccessUpdateBodies :
         \/ /\ events' = updateEventEarlier(c, id, b).events
            /\ regs' = regs /\ users' = users
            /\ sameOrNonOwner(c, id, updateEventEarlier(c, id, b), last')
         \/ ~UpdateEvent(c, id, b)
  /\ last'.op = "delete" =>
       \A c \in tokens, id \in EventIdParams :
         \/ /\ events' = deleteEventEarlier(c, id).events
            /\ regs' = deleteEventEarlier(c, id).regs
            /\ users' = users
            /\ sameOrNonOwner(c, id, deleteEventEarlier(c, id), last')
         \/ ~DeleteEvent(c, id)

C28_VariantsAgree == [][C28_Step]_vars

\* the later variant has turned away a caller who is not the owner, while
\* somebody is registered
C28_Witness ==
  /\ last.op \in {"update", "delete"}
  /\ last.kind = "UNAUTHORIZED"
  /\ regs # {}

\* C29: in the list of my registrations every entry names an event the
\* caller is registered for by the event's id, and its registration_id is
\* the id of the registration row of that event and the caller.
C29_Step ==
  last'.op = "my-registrations" =>
    \A c \in tokens :
      \/ \A i \in 1..Len(last'.body) :
           \E r \in findRegistration(last'.body[i].event.id, c.id) :
             last'.body[i].registration_id = r.id
      \/ ~GetUserRegistrations(c)

C29_RegistrationIds == [][C29_Step]_vars

\* C21: no successful response of signup, login, the list of users or the
\* caller's profile carries a password field, and no field of a user object
\* in it holds the password hash of a stored user.
C21_NoPasswordInResponses ==
  (last.op \in {"signup", "login", "users", "profile"} /\ last.kind = "OK") =>
    \A i \in 1..Len(last.body) :
      /\ "password" \notin DOMAIN last.body[i]
      /\ \A f \in DOMAIN last.body[i] \ {"id"}, u \in users :
           last.body[i][f] # u.password

\* the list of users answered with two users on file
C21_Witness ==
  /\ last.op = "users"
  /\ last.kind = "OK"
  /\ Len(last.body) = 2
  /\ \A u \in users : \E i \in 1..2 : last.body[i].id = u.id

\* C25: in every state every event's owner is a stored user and every
\* registration's event and user are stored; and the deletion of a user
\* leaves exactly the other users, the events of the other users, and the
\* registrations that other users hold for events of other users.
C25_ReferentialIntegrity ==
  /\ \A e \in events : UserKeyExists(e.user_id)
  /\ \A r \in regs : EventKeyExists(r.event_id) /\ UserKeyExists(r.user_id)
  /\ last.op = "deleteUser" =>
       /\ users = {u \in scen.users : u.id # scen.a}
       /\ events = {e \in scen.events : e.user_id # scen.a}
       /\ regs = {r \in scen.regs :
                    /\ r.user_id # scen.a
                    /\ \A e \in scen.events :
                         e.id = r.event_id => e.user_id # scen.a}

\* a user is deleted who owned an event that another user was registered
\* for, and who was registered for an event of another user
C25_Witness ==
  /\ last.op = "deleteUser"
  /\ last.kind = "true"
  /\ \E e \in scen.events, r \in scen.regs :
       e.user_id = scen.a /\ r.event_id = e.id /\ r.user_id # scen.a
  /\ \E e \in scen.events, r \in scen.regs :
       e.user_id # scen.a /\ r.event_id = e.id /\ r.user_id = scen.a

\* C22: a request to an event or registration route that carries no token is
\* answered 401 by the middleware and one whose token was not issued by the
\* server, or was issued an hour or more ago, is answered 403, in both cases
\* with users, events and registrations unchanged; any other request is
\* handled by the route's handler with the id and email of the token.
C22_Step ==
  \A h \in RouteHeaders, r \in RouteRequests :
    \/ last'.op \notin {"authenticateToken", r.route}
    \/ IF ~h.present \/ h.rest = << >> THEN
         /\ last'.op = "authenticateToken"
         /\ last'.status = 401
         /\ UNCHANGED <<users, events, regs>>
       ELSE IF h.rest[1] \notin issued \/ now >= h.rest[1].iat + OneHour THEN
         /\ last'.op = "authenticateToken"
         /\ last'.status = 403
         /\ UNCHANGED <<users, events, regs>>
       ELSE
         /\ last'.op # "authenticateToken"
         /\ \E t \in issued :
              /\ t = h.rest[1]
              /\ Handle([id |-> t.id, email |-> t.email], r)
    \/ ~Route(h, r)

C22_RoutesAuthenticated == [][C22_Step]_vars

\* events were created with tokens that have all expired since, and a
\* request is refused by the middleware with 403
C22_Witness ==
  /\ last.op = "authenticateToken"
  /\ last.status = 403
  /\ events # {}
  /\ issued # {}
  /\ \A t \in issued : now >= t.exp

====
